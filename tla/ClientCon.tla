----------------------------- MODULE ClientCon -----------------------------
(***************************************************************************)
(* One ClientCon object (src/src/connector.cc): ConCom with the read loop  *)
(* that cuts the byte stream into MsgPacks, and the connects of ClientCon. *)
(*                                                                         *)
(* Every connect makes a new bufferevent whose callbacks carry a pointer   *)
(* to the object.  Callbacks run user code, user code may disconnect,      *)
(* reconnect or delete the object, and the library code below it then      *)
(* goes on: the C++ call stack is state, as in ConMgr.                     *)
(*                                                                         *)
(* A stream of bytes is modelled in units; a length field is HeadLen       *)
(* units.  What is kept of the bytes is how many of a stream were drained, *)
(* and so whether a message begins at the front of the buffer.             *)
(***************************************************************************)
EXTENDS Integers, Sequences, SequencesExt

CONSTANTS
    MaxBev,     \* bound: bufferevents ever created
    MaxDepth,   \* bound: frames on the C++ stack
    HeadLen,    \* sizeof(MsgPack::len)
    MaxLen,     \* MAX_MSG_DATA_LEN
    Streams,    \* what a peer may send: sequences of message lengths, bad ones included
    Programs    \* the programs that use the object, and what may happen to them

Bev    == 1..MaxBev
NoBev  == 0
Length == 0..MaxLen + 1                  \* values of a length field, too long ones as one
Op     == {"DisConnect", "Send", "Connect", "Delete", "SetRaw", "SetMark"}
Mark   == [low : Nat, high : Nat]        \* read watermarks; high = 0 is no limit
NoMark == [low |-> 0, high |-> 0]

\* A program is described by the operations it does in which callback and the
\* watermarks it sets.  Under it connects may fail at once ("failsNow":
\* bufferevent_socket_connect returns -1), and a socket may get descriptor 0
\* ("zeroFd": stdin was closed, as Stdin::Del does).
UserFn == {"OnConnected", "OnRecv", "OnRawRecv", "OnError", "OnDisconnected", "Program"}
LibFn  == {"Read", "AfterRecv", "AfterRaw", "Connect"}

ASSUME LenAssumption  == HeadLen \in Nat \ {0} /\ MaxLen \in Nat \ {0}
ASSUME StreamAssumption == Streams \subseteq Seq(Length)
ASSUME ProgramAssumption ==
    Programs \subseteq [does : SUBSET (UserFn \X Op), net : SUBSET {"failsNow", "zeroFd"},
                        marks : SUBSET Mark]

VARIABLES
    prog,    \* the program that runs, one of Programs
    obj,     \* the object: "alive" or "freed"
    buf,     \* m_buf_e: the number of the bufferevent, or NoBev
    fd,      \* m_fd: 0, or 1 for any other descriptor
    up,      \* m_is_connect, "yes" or "no"
    rpl,     \* m_rev_pack_len
    raw,     \* m_isRawReadCb, "yes" or "no"
    bev,     \* each bufferevent: "none", "connecting", "open", "failed" (its connect failed
             \* at once), "down" (it has reported an error or EOF), "free"
    mark,    \* its watermarks
    stream,  \* the messages its peer sends
    pos,     \* units of them that were drained
    avail,   \* units in its input buffer
    told,    \* what the program was told of it: "nothing", "connected", "disconnected"
    stack,   \* frames of the C++ stack, the running one last
    heap     \* "sound", or "corrupt" once a freed object has been used

io   == <<mark, stream, pos, avail>>
con  == <<prog, obj, buf, fd, up, rpl, raw>>
vars == <<prog, obj, buf, fd, up, rpl, raw, bev, mark, stream, pos, avail, told, stack, heap>>

\* n is finish_pack_len, the local the read loop keeps across OnRecv.
Frame    == [fn : UserFn \cup LibFn, bev : Bev \cup {NoBev}, n : 0..HeadLen + MaxLen]
Fr(f, b) == [fn |-> f, bev |-> b, n |-> 0]

Idle        == stack = <<>>
Top         == stack[Len(stack)]
Running(fn) == stack # <<>> /\ Top.fn = fn
InUserCode  == stack # <<>> /\ Top.fn \in UserFn
Below       == SubSeq(stack, 1, Len(stack) - 1)
Push(f)     == stack' = Append(stack, f)
Become(f)   == stack' = Append(Below, f)     \* the running frame returns, another starts
Pop         == stack' = Below

Init ==
    /\ prog \in Programs
    /\ obj = "alive" /\ buf = NoBev /\ fd = 0 /\ up = "no" /\ rpl = 0 /\ raw = "no"
    /\ bev = [b \in Bev |-> "none"]
    /\ mark = [b \in Bev |-> NoMark] /\ stream = [b \in Bev |-> <<>>]
    /\ pos = [b \in Bev |-> 0] /\ avail = [b \in Bev |-> 0]
    /\ told = [b \in Bev |-> "nothing"]
    /\ stack = <<>> /\ heap = "sound"

-----------------------------------------------------------------------------
(* ConCom *)

IsWaitConnectReq == fd = 0

\* Mutants of Free: the bufferevent is forgotten, not freed; m_rev_pack_len or
\* m_is_connect keeps its value.
FreeKeepsBev ==
    /\ bev' = bev
    /\ buf' = NoBev /\ fd' = 0 /\ up' = "no" /\ rpl' = 0

FreeKeepsLen ==
    /\ bev' = IF buf = NoBev THEN bev ELSE [bev EXCEPT ![buf] = "free"]
    /\ buf' = NoBev /\ fd' = 0 /\ up' = "no" /\ rpl' = rpl

\* Free: the bufferevent and with it the socket are gone, and so are callbacks
\* that were pending for it.
Free ==
    /\ bev' = IF buf = NoBev THEN bev ELSE [bev EXCEPT ![buf] = "free"]
    /\ buf' = NoBev /\ fd' = 0 /\ up' = "no" /\ rpl' = 0

\* Mutant: only an established connection is closed.
DisConnectOnlyUp(frames) ==
    \/ /\ up = "no"
       /\ stack' = frames
       /\ UNCHANGED <<con, bev, told>>
    \/ /\ up = "yes"
       /\ Free
       /\ stack' = Append(frames, Fr("OnDisconnected", buf))
       /\ told' = [told EXCEPT ![buf] = "disconnected"]
       /\ UNCHANGED <<prog, obj, raw>>

\* DisConnect: nothing when m_fd is 0, else Free and OnDisconnected.  `frames'
\* is the stack the call leaves below OnDisconnected.
DisConnect(frames) ==
    \/ /\ fd = 0
       /\ stack' = frames
       /\ UNCHANGED <<con, bev, told>>
    \/ /\ fd # 0
       /\ Free
       /\ stack' = Append(frames, Fr("OnDisconnected", buf))
       /\ told' = [told EXCEPT ![buf] = "disconnected"]
       /\ UNCHANGED <<prog, obj, raw>>

-----------------------------------------------------------------------------
(* ClientCon::ConnectByAddr *)

\* The next bufferevent is made; the peer will send some stream over it.
NewBev(b) == bev[b] = "none" /\ \A a \in 1..b - 1 : bev[a] # "none"

\* SetSocketInfo: refused while m_buf_e is set, the new one is then freed.
SetSocketInfo(b) ==
    \/ /\ buf = NoBev
       /\ buf' = b
       /\ fd' \in IF "zeroFd" \in prog.net THEN {0, 1} ELSE {1}
       /\ bev' = [bev EXCEPT ![b] = "connecting"]
    \/ /\ buf # NoBev
       /\ bev' = [bev EXCEPT ![b] = "free"]
       /\ UNCHANGED <<buf, fd>>

\* The connect is under way; its result comes as an event.
ConnectStarts(b) ==
    /\ SetSocketInfo(b)
    /\ \E s \in Streams : stream' = [stream EXCEPT ![b] = s]
    /\ UNCHANGED <<prog, obj, up, rpl, raw, mark, pos, avail, told, stack, heap>>

\* It failed at once: eventcb runs from inside bufferevent_socket_connect, and
\* ConnectByAddr returns false without freeing the bufferevent, which stays
\* enabled with the object as its argument.
ConnectFails(b) ==
    /\ "failsNow" \in prog.net /\ Len(stack) + 2 <= MaxDepth
    /\ bev' = [bev EXCEPT ![b] = "failed"]
    /\ stack' = stack \o <<Fr("Connect", b), Fr("OnError", b)>>
    /\ UNCHANGED <<con, io, told, heap>>

\* ConnectInit and TryReconnect are refused unless m_fd is 0.
ConnectByAddr ==
    /\ IsWaitConnectReq
    /\ \E b \in Bev : NewBev(b) /\ (ConnectStarts(b) \/ ConnectFails(b))

\* The failed ConnectByAddr logs GetRemoteIp() and returns false.
ConnectReturn ==
    /\ Running("Connect")
    /\ heap' = IF obj = "freed" THEN "corrupt" ELSE heap
    /\ Pop
    /\ UNCHANGED <<con, bev, io, told>>

-----------------------------------------------------------------------------
(* The input buffer of a bufferevent *)

MinOf(m, n) == IF m < n THEN m ELSE n

Units(s) == FoldLeft(LAMBDA n, len : n + HeadLen + len, 0, s)
Left(b)  == Units(stream[b]) - pos[b] - avail[b]     \* what its peer has still to send

\* The message the buffer begins with, if one begins there.
AtFront(b) == {k \in DOMAIN stream[b] : Units(SubSeq(stream[b], 1, k - 1)) = pos[b]}

Drain(b, n) == avail' = [avail EXCEPT ![b] = @ - n] /\ pos' = [pos EXCEPT ![b] = @ + n]

\* bufferevent_inbuf_wm_cb runs whenever the buffer changes, and
\* bufferevent_setwatermark does the same: reading is suspended while the
\* buffer holds the high watermark or more.
Suspended(b) == mark[b].high # 0 /\ avail[b] >= mark[b].high

-----------------------------------------------------------------------------
(* Events of the loop; each starts with an empty stack. *)

\* conn_event_callback, BEV_EVENT_CONNECTED.
Connected(b) ==
    /\ Idle /\ bev[b] = "connecting"
    /\ bev' = [bev EXCEPT ![b] = "open"]
    /\ up' = "yes"
    /\ told' = [told EXCEPT ![b] = "connected"]
    /\ Push(Fr("OnConnected", b))
    /\ UNCHANGED <<prog, obj, buf, fd, rpl, raw, io, heap>>

\* An error, the refusal of a connect, or EOF: conn_event_callback begins with
\* OnError.  The bufferevent stops reading, it reports this once.
ErrorEvent(b) ==
    /\ Idle /\ bev[b] \in {"connecting", "open", "failed"}
    /\ bev' = [bev EXCEPT ![b] = "down"]
    /\ IF obj = "freed" THEN heap' = "corrupt" /\ UNCHANGED stack
                        ELSE Push(Fr("OnError", b)) /\ UNCHANGED heap
    /\ UNCHANGED <<con, io, told>>

\* bufferevent_readcb reads at most up to the high watermark.
ReadLimit(b) ==
    IF mark[b].high = 0 THEN Left(b) ELSE MinOf(Left(b), mark[b].high - avail[b])

\* bufferevent_trigger_nolock_: the callback runs unless the low watermark is not reached.
Triggers(b) == avail'[b] >= mark[b].low

\* Bytes arrive and readcb runs: OnRawRecv gets all that is buffered, or the
\* read loop starts.
ReadEvent(b) ==
    /\ Idle /\ bev[b] = "open" /\ ~Suspended(b)
    /\ \E n \in 1..ReadLimit(b) : avail' = [avail EXCEPT ![b] = @ + n]
    /\ CASE ~Triggers(b)                  -> UNCHANGED stack
         [] Triggers(b) /\ raw = "yes"    -> stack' = <<Fr("AfterRaw", b), Fr("OnRawRecv", b)>>
         [] Triggers(b) /\ raw = "no"     -> Push(Fr("Read", b))
    /\ UNCHANGED <<con, bev, mark, stream, pos, told, heap>>

\* What OnRawRecv says it has read is drained; the object is not used again.
AfterRaw ==
    /\ Running("AfterRaw")
    /\ \E n \in 0..avail[Top.bev] : Drain(Top.bev, n)
    /\ Pop
    /\ UNCHANGED <<con, bev, mark, stream, told, heap>>

\* A timer or any other code of the program.
ProgramRuns ==
    /\ Idle
    /\ Push(Fr("Program", NoBev))
    /\ UNCHANGED <<con, bev, io, told, heap>>

-----------------------------------------------------------------------------
(* conn_read_callback_no_cp.  It works on the input buffer of the bufferevent *)
(* it was called for, and on the m_rev_pack_len of the object.                *)

\* m_rev_pack_len after the length field was read, if it had to be: the value
\* kept from an earlier call, the length of the message, or any bytes.
PackLen(b) ==
    IF rpl # 0 THEN {rpl}
    ELSE IF AtFront(b) # {} THEN {stream[b][k] : k \in AtFront(b)} ELSE Length

Bad(len) == len = 0 \/ len > MaxLen

\* Mutant: a message that has just become complete waits for more bytes.
ReadReturnEarly ==
    /\ Running("Read") /\ avail[Top.bev] >= HeadLen
    /\ rpl' \in PackLen(Top.bev)
    /\ ~Bad(rpl') /\ avail[Top.bev] <= HeadLen + rpl'
    /\ Pop
    /\ UNCHANGED <<prog, obj, buf, fd, up, raw, bev, io, told, heap>>

\* The length field or the message is not complete: wait for more bytes.
ReadReturn ==
    /\ Running("Read")
    /\ \/ avail[Top.bev] < HeadLen /\ rpl' = rpl
       \/ /\ avail[Top.bev] >= HeadLen
          /\ rpl' \in PackLen(Top.bev)
          /\ ~Bad(rpl') /\ avail[Top.bev] < HeadLen + rpl'
    /\ Pop
    /\ UNCHANGED <<prog, obj, buf, fd, up, raw, bev, io, told, heap>>

\* The length is 0 or above the maximum.
ReadBadLength ==
    /\ Running("Read") /\ avail[Top.bev] >= HeadLen
    /\ \E len \in PackLen(Top.bev) : Bad(len)
    /\ DisConnect(Below)
    /\ UNCHANGED <<io, heap>>

\* A complete message is there.
ReadDeliver ==
    /\ Running("Read") /\ avail[Top.bev] >= HeadLen
    /\ \E len \in PackLen(Top.bev) :
         /\ ~Bad(len) /\ avail[Top.bev] >= HeadLen + len
         /\ rpl' = len
         /\ stack' = Below \o <<[Fr("AfterRecv", Top.bev) EXCEPT !.n = HeadLen + len],
                                Fr("OnRecv", Top.bev)>>
    /\ UNCHANGED <<prog, obj, buf, fd, up, raw, bev, io, told, heap>>

\* OnRecv has returned and the loop looks at m_fd: on an object that was
\* deleted meanwhile it reads freed memory.
AfterRecvFreed ==
    /\ Running("AfterRecv") /\ obj = "freed"
    /\ heap' = "corrupt"
    /\ UNCHANGED <<con, bev, io, told, stack>>

\* The connection is gone, the rest of the buffer is not looked at.
AfterRecvGone ==
    /\ Running("AfterRecv") /\ obj = "alive" /\ IsWaitConnectReq
    /\ Pop
    /\ UNCHANGED <<con, bev, io, told, heap>>

\* Mutants: the loop does not look at m_fd; it drains the data without the head.
AfterRecvDrainAlways ==
    /\ Running("AfterRecv") /\ obj = "alive"
    /\ Drain(Top.bev, Top.n)
    /\ rpl' = 0
    /\ Become(Fr("Read", Top.bev))
    /\ UNCHANGED <<prog, obj, buf, fd, up, raw, bev, mark, stream, told, heap>>

\* The message is drained, the next one is looked for.
AfterRecvDrain ==
    /\ Running("AfterRecv") /\ obj = "alive" /\ ~IsWaitConnectReq
    /\ Drain(Top.bev, Top.n)
    /\ rpl' = 0
    /\ Become(Fr("Read", Top.bev))
    /\ UNCHANGED <<prog, obj, buf, fd, up, raw, bev, mark, stream, told, heap>>

-----------------------------------------------------------------------------
(* User code *)

Doing(op) == InUserCode /\ obj = "alive" /\ <<Top.fn, op>> \in prog.does

UserDisConnect ==
    /\ Doing("DisConnect") /\ Len(stack) < MaxDepth
    /\ DisConnect(stack)
    /\ UNCHANGED <<io, heap>>

\* SendPack and SendData: only a send while too much output waits changes the
\* connection, it disconnects.
UserSendOverflow ==
    /\ Doing("Send") /\ Len(stack) < MaxDepth
    /\ up = "yes" /\ fd # 0 /\ buf # NoBev
    /\ DisConnect(stack)
    /\ UNCHANGED <<io, heap>>

\* SetRawReadCb; the loop that may be running below does not look at it again.
UserSetRaw ==
    /\ Doing("SetRaw")
    /\ raw' \in {"yes", "no"} \ {raw}
    /\ UNCHANGED <<prog, obj, buf, fd, up, rpl, bev, io, told, stack, heap>>

\* Setwatermark(EV_READ, low, high)
UserSetMark ==
    /\ Doing("SetMark") /\ up = "yes" /\ fd # 0 /\ buf # NoBev
    /\ \E m \in prog.marks : mark' = [mark EXCEPT ![buf] = m]
    /\ UNCHANGED <<con, bev, stream, pos, avail, told, stack, heap>>

UserConnect == Doing("Connect") /\ ConnectByAddr

\* ~ConCom: Free, and no OnDisconnected.
UserDelete ==
    /\ Doing("Delete")
    /\ obj' = "freed"
    /\ Free
    /\ UNCHANGED <<prog, raw, io, told, stack, heap>>

UserReturn ==
    /\ InUserCode /\ Top.fn # "OnError"
    /\ Pop
    /\ UNCHANGED <<con, bev, io, told, heap>>

\* OnError returns and conn_event_callback calls DisConnect.
ErrorReturn ==
    /\ Running("OnError")
    /\ IF obj = "freed" THEN heap' = "corrupt" /\ UNCHANGED <<con, bev, told, stack>>
                        ELSE DisConnect(Below) /\ UNCHANGED heap
    /\ UNCHANGED io

-----------------------------------------------------------------------------
LoopEvent(b) == Connected(b) \/ ErrorEvent(b) \/ ReadEvent(b)
Library == \/ ConnectReturn \/ AfterRaw \/ ReadReturn \/ ReadBadLength \/ ReadDeliver
           \/ AfterRecvFreed \/ AfterRecvGone \/ AfterRecvDrain
User    == \/ UserDisConnect \/ UserSendOverflow \/ UserConnect \/ UserDelete
           \/ UserSetRaw \/ UserSetMark \/ UserReturn \/ ErrorReturn

Next == heap = "sound" /\ ((\E b \in Bev : LoopEvent(b)) \/ ProgramRuns \/ Library \/ User)

Spec == Init /\ [][Next]_vars

\* Library code goes on, callbacks of the program return (a program makes
\* finitely many connects here, so it cannot nest calls for ever), and the loop
\* delivers the result of a connect: it is ready again whenever the stack is
\* empty.
FairSpec ==
    /\ Spec
    /\ WF_vars(heap = "sound" /\ Library)
    /\ WF_vars(heap = "sound" /\ (UserReturn \/ ErrorReturn))
    /\ \A b \in Bev : SF_vars(heap = "sound" /\ bev[b] = "connecting" /\ LoopEvent(b))

-----------------------------------------------------------------------------
(* Properties *)

TypeOK ==
    /\ prog \in Programs
    /\ obj \in {"alive", "freed"}
    /\ buf \in Bev \cup {NoBev} /\ fd \in {0, 1} /\ up \in {"yes", "no"} /\ rpl \in Length
    /\ raw \in {"yes", "no"}
    /\ bev \in [Bev -> {"none", "connecting", "open", "failed", "down", "free"}]
    /\ mark \in [Bev -> Mark] /\ stream \in [Bev -> Streams \cup {<<>>}]
    /\ pos \in [Bev -> Nat] /\ avail \in [Bev -> Nat]
    /\ told \in [Bev -> {"nothing", "connected", "disconnected"}]
    /\ stack \in Seq(Frame)
    /\ heap \in {"sound", "corrupt"}

(* What some properties ask of the program. *)
Can(fn, op)  == <<fn, op>> \in prog.does
Closes(fn)   == Can(fn, "DisConnect") \/ Can(fn, "Send")
\* fn, or the OnDisconnected of a disconnect in fn, does op.
Leads(fn, op) == Can(fn, op) \/ (Closes(fn) /\ Can("OnDisconnected", op))
Fails        == "failsNow" \in prog.net
ReconnectsInRecv == Leads("OnRecv", "Connect")
\* Raw and framed reading are never mixed within a connection.
ChoosesRawFirst == \A fn \in UserFn \ {"OnConnected"} : ~Can(fn, "SetRaw")
\* A mark lets every length field through and has room for the largest.
MarksFit == \A m \in prog.marks : m.low <= HeadLen /\ (m.high = 0 \/ m.high >= HeadLen + MaxLen)
DeletesBelowLibrary == Leads("OnRecv", "Delete") \/ Leads("OnError", "Delete")

\* A callback fn about bufferevent b starts in this step.
Starts(fn, b) ==
    /\ stack' # stack /\ stack' # <<>> /\ Len(stack') >= Len(stack)
    /\ stack'[Len(stack')].fn = fn /\ stack'[Len(stack')].bev = b

\* Whatever the program does, it hears of each connection in order: that it is
\* connected at most once, that it is disconnected at most once and last.
ToldOnce ==
    [][\A b \in Bev :
         /\ Starts("OnConnected", b) => told[b] = "nothing"
         /\ Starts("OnDisconnected", b) => told[b] # "disconnected"]_vars

\* A length that was read belongs to the message at the front of the current
\* connection's buffer: no length of an old connection, or of the message
\* before, is left in m_rev_pack_len to cut the stream at the wrong place.  While
\* there is one the connection does not read raw: the bytes OnRawRecv is given are
\* those of the network (connector.h:97), no head converted in place among them.
FramingOwn ==
    ~ReconnectsInRecv /\ ChoosesRawFirst /\ rpl # 0 =>
        raw = "no" /\ buf # NoBev /\ \E k \in AtFront(buf) : rpl = stream[buf][k]

\* OnRecv of a connection runs only between its OnConnected and its
\* OnDisconnected: what is still buffered after a disconnect in OnRecv is
\* dropped (connector.cc:200).  It is, unless the program reconnects there.
RecvStep == \A b \in Bev : Starts("OnRecv", b) => told[b] = "connected"
RecvWhileConnected == [][~ReconnectsInRecv => RecvStep]_vars
BufferDropped      == [][RecvStep]_vars

\* Library code does not use an object its program deleted, if the program
\* deletes it in no callback that returns into the read loop or into
\* conn_event_callback before its DisConnect, and no bufferevent of it was lost.
NoUseAfterFree == ~DeletesBelowLibrary /\ ~Fails => heap = "sound"

\* Between two events every bufferevent that can still call the object is its
\* m_buf_e, so Free reaches it; a connect that fails closes its own socket
\* (connector.cc:525), says the first, for all programs.
FailedIsClosed ==
    Idle => \A b \in Bev : bev[b] \in {"connecting", "open", "failed", "down"} => buf = b
OwnedBev == TypeOK /\ (~Fails => FailedIsClosed)

\* An error closes the connection it was reported for, never another one that
\* is healthy: OnDisconnected means that the peer went away or the network
\* failed (connector.h:93).
ErrorClosesOwn ==
    [][~Fails /\ ~Leads("OnError", "Connect") =>
         (Running("OnError") /\ obj' = "alive" /\ buf # NoBev /\ buf' = NoBev
            /\ Len(stack') <= Len(stack) => Top.bev = buf)]_vars

\* A request that was accepted has an outcome the program hears of
\* (connector.h:190): connected, or OnDisconnected, unless it deletes the object.
Orderly == prog.net = {} /\ ~DeletesBelowLibrary
Answered ==
    \A b \in Bev : (Orderly /\ buf = b /\ told[b] = "nothing")
                     ~> (told[b] # "nothing" \/ obj = "freed")

\* A message that has arrived completely is delivered without waiting for more
\* bytes, or its connection is closed.
Framed   == Orderly /\ ~ReconnectsInRecv /\ MarksFit /\ \A fn \in UserFn : ~Can(fn, "SetRaw")
Whole(b, k) == k \in AtFront(b) /\ avail[b] >= HeadLen + stream[b][k]
Delivered ==
    \A b \in Bev : \A k \in UNION {DOMAIN s : s \in Streams} :
        (Framed /\ buf = b /\ Whole(b, k)) ~> (k \notin AtFront(b) \/ buf # b)
=============================================================================
