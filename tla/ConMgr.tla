------------------------------- MODULE ConMgr -------------------------------
(***************************************************************************)
(* Server side of libevent_cpp: Listener accepts a socket, BaseConMgr owns *)
(* the SvrCon object made for it, and deletes it later, from a one second  *)
(* timer (src/src/listener.cc, src/include/listener.h).                    *)
(*                                                                         *)
(* The library is single threaded; what interleaves is user code.  Every   *)
(* virtual callback (OnConnected, OnRecv, OnError, the derived destructor, *)
(* the Foreach functor, a user's own Timer) may call back into the         *)
(* manager, so the C++ call stack is state: `stack' holds the frames that  *)
(* still have work to do, its last element is the running one.  When the   *)
(* stack is empty the event loop picks the next event.                     *)
(*                                                                         *)
(* A SvrCon object stands for its own 64-bit id: ids are unique            *)
(* (module SvrConId says under which conditions).                          *)
(***************************************************************************)
EXTENDS Integers, Sequences

CONSTANTS
    Con,          \* the SvrCon objects that may be created
    NoCon,        \* the `con' field of a frame that belongs to no connection
    MaxDepth,     \* bound: frames on the C++ stack
    Programs      \* the programs that use the manager: sets of what they and the system may do

ASSUME ConAssumption   == NoCon \notin Con
ASSUME DepthAssumption == MaxDepth \in Nat

\* A derived destructor may call PostDelConn, Foreach or DisConnect;
\* bufferevent_socket_new may fail inside AcceptInit; the owner may destroy the
\* manager; Stdin::Del may have closed descriptor 0, which accept hands out again.
Conduct == {"dtorUsesMgr", "initFails", "mgrDies", "stdinClosed"}

ASSUME ProgramAssumption == Programs \subseteq SUBSET Conduct

VARIABLES
    prog,   \* the program that runs, one of Programs
    obj,    \* life of each C++ object: "unborn", "alive", "dying" (derived destructor runs), "freed"
    all,    \* m_all_connector
    open,   \* connections with m_fd # 0: their bufferevent is registered in the loop
    zero,   \* bufferevent of a connection accepted on descriptor 0: "reads", "told" while the
            \* read callback that called OnRecv runs, "shut" after EOF; "no" for all others
    vwdc,   \* m_vwdc, the vector of objects waiting for `delete'
    cap,    \* capacity of that vector: push_back reallocates when it is full
    at,     \* OnTimerDelConn: position of the range-for in m_vwdc
    end,    \* OnTimerDelConn: end iterator, taken when the loop starts
    iter,   \* iterators of the running range-for: "valid", or "stale" after an invalidating change
    stack,  \* frames of the C++ stack, the running one last
    mgr,    \* the BaseConMgr object: "alive", "dying", "dead"
    heap    \* "sound", or "corrupt" once freed memory has been used

vars == <<prog, obj, all, open, zero, vwdc, cap, at, end, iter, stack, mgr, heap>>

UserFn  == {"OnConnected", "OnRecv", "OnError", "Dtor", "ForeachCb", "UserTimer"}
LibFn   == {"ReadCb", "Foreach", "Sweep", "MgrDtor"}
Frame   == [fn : UserFn \cup LibFn, con : Con \cup {NoCon}, rest : SUBSET Con]

Fr(fn, c)       == [fn |-> fn, con |-> c, rest |-> {}]
FrLoop(fn, set) == [fn |-> fn, con |-> NoCon, rest |-> set]

Idle        == stack = <<>>
Top         == stack[Len(stack)]
Running(fn) == stack # <<>> /\ Top.fn = fn
InUserCode  == stack # <<>> /\ Top.fn \in UserFn
Below       == SubSeq(stack, 1, Len(stack) - 1)
Push(f)     == stack' = Append(stack, f)
Pop         == stack' = Below

\* A delete loop (OnTimerDelConn or ~BaseConMgr) is somewhere on the stack.
Deleting == stack # <<>> /\ stack[1].fn \in {"Sweep", "MgrDtor"}
\* Connections that own a bufferevent; for those on descriptor 0 m_fd is 0.
OnZero == {c \in Con : zero[c] # "no"}
Live   == open \cup OnZero
\* Those that still read.
Reading == open \cup {c \in Con : zero[c] = "reads"}

\* What a derived destructor may do to the manager that is running it.
MayUseMgr == Deleting => "dtorUsesMgr" \in prog

Init ==
    /\ prog \in Programs
    /\ obj = [c \in Con |-> "unborn"]
    /\ all = {} /\ open = {} /\ zero = [c \in Con |-> "no"]
    /\ vwdc = <<>> /\ cap = 0 /\ at = 1 /\ end = 0 /\ iter = "valid"
    /\ stack = <<>> /\ mgr = "alive" /\ heap = "sound"

-----------------------------------------------------------------------------
(* BaseConMgr *)

\* FindConn: the pointers user code can get from the manager.
FindConn(c) == mgr # "dead" /\ c \in all

\* Mutants of PostDelConn: the map entry is not erased; the vector forgets it;
\* the vector never gets room for its first element.
PostDelConnKeepsEntry(c) ==
    /\ vwdc' = IF c \in all THEN Append(vwdc, c) ELSE vwdc
    /\ cap' = cap + 1
    /\ UNCHANGED <<all, iter, heap>>

PostDelConnForgets(c) ==
    /\ all' = all \ {c}
    /\ UNCHANGED <<vwdc, cap, iter, heap>>

PostDelConnNoRoom(c) ==
    /\ all' = all \ {c}
    /\ vwdc' = IF c \in all THEN Append(vwdc, c) ELSE vwdc
    /\ cap' = IF Len(vwdc) < cap THEN cap ELSE 2 * cap
    /\ UNCHANGED <<iter, heap>>

\* PostDelConn(id): out of the map, onto the vector.  An unknown id is refused,
\* which is what makes the second post of SvrCon::DisConnect harmless.  The
\* push invalidates the iterators of a running sweep when it reallocates, the
\* erase those of a running ~BaseConMgr.
PostDelConn(c) ==
    \/ /\ mgr # "dead" /\ c \in all
       /\ all'   = all \ {c}
       /\ vwdc'  = Append(vwdc, c)
       /\ cap'   = IF Len(vwdc) < cap THEN cap ELSE IF cap = 0 THEN 1 ELSE 2 * cap
       /\ iter'  = IF Deleting /\ (mgr = "dying" \/ Len(vwdc) >= cap) THEN "stale" ELSE iter
       /\ UNCHANGED heap
    \/ /\ mgr # "dead" /\ c \notin all
       /\ UNCHANGED <<all, vwdc, cap, iter, heap>>
    \/ /\ mgr = "dead"                     \* m_cn_mgr dangles
       /\ heap' = "corrupt"
       /\ UNCHANGED <<all, vwdc, cap, iter>>

\* Mutant: OnDisconnected does not post.
ConComDisConnectNoPost(c) ==
    open' = open \ {c} /\ UNCHANGED <<all, vwdc, cap, iter, heap>>

\* ConCom::DisConnect of a SvrCon: nothing when m_fd is 0, else Free and
\* OnDisconnected, which posts the object.
ConComDisConnect(c) ==
    \/ c \in open /\ open' = open \ {c} /\ PostDelConn(c)
    \/ c \notin open /\ UNCHANGED <<all, open, vwdc, cap, iter, heap>>

\* SvrCon::DisConnect posts a second time; that only has an effect on an object
\* that is still in the map with m_fd 0 (a failed AcceptInit left it there).
SvrConDisConnect(c) == open' = open \ {c} /\ PostDelConn(c)

-----------------------------------------------------------------------------
(* Events the loop delivers; each starts with an empty stack. *)

CreateConnectForListener(c) ==
    /\ obj[c] = "unborn"
    /\ obj' = [obj EXCEPT ![c] = "alive"]
    /\ all' = all \cup {c}

\* AcceptInit up to its OnConnected callback, or returning false: then the
\* object stays in the map, and the socket is nobody's.  A socket that got
\* descriptor 0 works, but its m_fd says "not connected".
AcceptInit(c) ==
    \/ open' = open \cup {c} /\ Push(Fr("OnConnected", c)) /\ UNCHANGED zero
    \/ /\ "stdinClosed" \in prog /\ OnZero = {}
       /\ zero' = [zero EXCEPT ![c] = "reads"] /\ Push(Fr("OnConnected", c))
       /\ UNCHANGED open
    \/ "initFails" \in prog /\ UNCHANGED <<open, zero, stack>>

\* Listener::listener_cb.
Accept(c) ==
    /\ Idle /\ mgr = "alive"
    /\ CreateConnectForListener(c)
    /\ AcceptInit(c)
    /\ UNCHANGED <<vwdc, cap, at, end, iter, mgr, heap>>

\* The bufferevent of c has input.  An object that was posted but not
\* disconnected still has its bufferevent, so it still gets here.
ReadCb(c) ==
    /\ Idle /\ c \in Reading
    /\ Push(Fr("ReadCb", c))
    /\ UNCHANGED <<obj, all, open, zero, vwdc, cap, at, end, iter, mgr, heap>>

\* EOF or an error: conn_event_callback begins with OnError.  libevent has
\* stopped reading, and on descriptor 0 nothing is ever written.
EventCb(c) ==
    /\ Idle /\ c \in Reading
    /\ zero' = [zero EXCEPT ![c] = IF @ = "reads" THEN "shut" ELSE @]
    /\ Push(Fr("OnError", c))
    /\ UNCHANGED <<obj, all, open, vwdc, cap, at, end, iter, mgr, heap>>

\* A callback of the program that belongs to no connection.
UserTimer ==
    /\ Idle
    /\ Push(Fr("UserTimer", NoCon))
    /\ UNCHANGED <<obj, all, open, zero, vwdc, cap, at, end, iter, mgr, heap>>

\* Mutant: the vector is emptied from inside callbacks too.
OnTimerDelConnAnywhere ==
    /\ InUserCode /\ Top.fn # "Dtor" /\ mgr = "alive" /\ vwdc # <<>>
    /\ at' = 1 /\ end' = Len(vwdc) /\ iter' = "valid"
    /\ Push(FrLoop("Sweep", {}))
    /\ UNCHANGED <<obj, all, open, zero, vwdc, cap, mgr, heap>>

\* The one second timer.  An empty vector is a no-op.
OnTimerDelConn ==
    /\ Idle /\ mgr = "alive" /\ vwdc # <<>>
    /\ at' = 1 /\ end' = Len(vwdc) /\ iter' = "valid"
    /\ Push(FrLoop("Sweep", {}))
    /\ UNCHANGED <<obj, all, open, zero, vwdc, cap, mgr, heap>>

\* The owner destroys the manager between two events.
MgrDestroy ==
    /\ "mgrDies" \in prog
    /\ Idle /\ mgr = "alive"
    /\ mgr' = "dying" /\ iter' = "valid"
    /\ Push(FrLoop("MgrDtor", all))
    /\ UNCHANGED <<obj, all, open, zero, vwdc, cap, at, end, heap>>

-----------------------------------------------------------------------------
(* Library code that has user callbacks to run. *)

\* conn_read_callback_no_cp found a complete message.  On descriptor 0 it
\* returns after OnRecv, taking the connection for closed.
DeliverMsg ==
    /\ Running("ReadCb") /\ Top.con \in Reading
    /\ zero' = [zero EXCEPT ![Top.con] = IF @ = "reads" THEN "told" ELSE @]
    /\ Push(Fr("OnRecv", Top.con))
    /\ UNCHANGED <<obj, all, open, vwdc, cap, at, end, iter, mgr, heap>>

\* It found a length of 0 or above the maximum (on descriptor 0 DisConnect does
\* nothing, and ReadReturn says it all).
BadLength ==
    /\ Running("ReadCb") /\ Top.con \in open
    /\ ConComDisConnect(Top.con)
    /\ Pop
    /\ UNCHANGED <<obj, zero, at, end, mgr>>

\* It ran out of complete messages, or the connection is gone (m_fd is 0).
ReadReturn ==
    /\ Running("ReadCb")
    /\ zero' = [zero EXCEPT ![Top.con] = IF @ = "told" THEN "reads" ELSE @]
    /\ Pop
    /\ UNCHANGED <<obj, all, open, vwdc, cap, at, end, iter, mgr, heap>>

\* Foreach calls the functor on the next pointer of its copy.
ForeachNext ==
    /\ Running("Foreach")
    /\ \E c \in Top.rest :
         stack' = Append([stack EXCEPT ![Len(stack)].rest = @ \ {c}], Fr("ForeachCb", c))
    /\ UNCHANGED <<obj, all, open, zero, vwdc, cap, at, end, iter, mgr, heap>>

ForeachEnd ==
    /\ Running("Foreach") /\ Top.rest = {}
    /\ Pop
    /\ UNCHANGED <<obj, all, open, zero, vwdc, cap, at, end, iter, mgr, heap>>

\* OnTimerDelConn: DelConnect(v), that is `delete v', starts the derived
\* destructor of the next element.
SweepNext ==
    /\ Running("Sweep") /\ at <= end /\ iter = "valid"
    /\ obj' = [obj EXCEPT ![vwdc[at]] = "dying"]
    /\ Push(Fr("Dtor", vwdc[at]))
    /\ UNCHANGED <<all, open, zero, vwdc, cap, at, end, iter, mgr, heap>>

\* The next element is read through an invalidated iterator.
SweepStale ==
    /\ Running("Sweep") /\ at <= end /\ iter = "stale"
    /\ heap' = "corrupt"
    /\ UNCHANGED <<obj, all, open, zero, vwdc, cap, at, end, iter, stack, mgr>>

\* m_vwdc.clear(), which also drops what was pushed during the loop.
SweepEnd ==
    /\ Running("Sweep") /\ at > end
    /\ vwdc' = <<>> /\ at' = 1 /\ end' = 0
    /\ Pop
    /\ UNCHANGED <<obj, all, open, zero, cap, iter, mgr, heap>>

\* ~BaseConMgr: `delete' the next object of the map.
MgrDtorNext ==
    /\ Running("MgrDtor") /\ iter = "valid"
    /\ \E c \in Top.rest :
         /\ obj' = [obj EXCEPT ![c] = "dying"]
         /\ stack' = Append([stack EXCEPT ![Len(stack)].rest = @ \ {c}], Fr("Dtor", c))
    /\ UNCHANGED <<all, open, zero, vwdc, cap, at, end, iter, mgr, heap>>

\* The map changed under ~BaseConMgr's range-for.
MgrDtorStale ==
    /\ Running("MgrDtor") /\ iter = "stale"
    /\ heap' = "corrupt"
    /\ UNCHANGED <<obj, all, open, zero, vwdc, cap, at, end, iter, stack, mgr>>

\* The loop is over; members are destroyed, the pointers in m_vwdc with them.
MgrDtorEnd ==
    /\ Running("MgrDtor") /\ iter = "valid" /\ Top.rest = {}
    /\ all' = {} /\ vwdc' = <<>> /\ mgr' = "dead"
    /\ Pop
    /\ UNCHANGED <<obj, open, zero, cap, at, end, iter, heap>>

-----------------------------------------------------------------------------
(* What user code may do while one of its callbacks runs. *)

UserPostDelConn(c) ==
    /\ InUserCode /\ MayUseMgr /\ FindConn(c)
    /\ PostDelConn(c)
    /\ UNCHANGED <<obj, open, zero, at, end, stack, mgr>>

\* con->DisConnect() on a pointer from FindConn, on the functor's argument or
\* on `this'.  In a destructor, DisConnect on `this' alone touches the manager
\* only when the object is still in the map.
UserDisConnect(c) ==
    /\ InUserCode
    /\ \/ MayUseMgr /\ (FindConn(c) \/ c = Top.con)
       \/ c = Top.con /\ c \notin all
    /\ SvrConDisConnect(c)
    /\ UNCHANGED <<obj, zero, at, end, stack, mgr>>

\* SendPack/SendData on a connection whose output is above m_msbs disconnects.
UserSendOverflow(c) ==
    /\ InUserCode /\ MayUseMgr /\ (FindConn(c) \/ c = Top.con)
    /\ c \in open
    /\ ConComDisConnect(c)
    /\ UNCHANGED <<obj, zero, at, end, stack, mgr>>

UserForeach ==
    /\ InUserCode /\ MayUseMgr /\ mgr # "dead" /\ Len(stack) + 2 <= MaxDepth
    /\ Push(FrLoop("Foreach", all))
    /\ UNCHANGED <<obj, all, open, zero, vwdc, cap, at, end, iter, mgr, heap>>

\* OnConnected, OnRecv, a Foreach functor or a user timer returns.
UserReturn ==
    /\ InUserCode /\ Top.fn \notin {"OnError", "Dtor"}
    /\ Pop
    /\ UNCHANGED <<obj, all, open, zero, vwdc, cap, at, end, iter, mgr, heap>>

\* OnError returns: conn_event_callback goes on to DisConnect().
ErrorReturn ==
    /\ Running("OnError")
    /\ ConComDisConnect(Top.con)
    /\ Pop
    /\ UNCHANGED <<obj, zero, at, end, mgr>>

\* The derived destructor returns: ~SvrCon, ~ConCom (Free), the memory is gone.
DtorReturn ==
    /\ Running("Dtor")
    /\ obj' = [obj EXCEPT ![Top.con] = "freed"]
    /\ open' = open \ {Top.con} /\ zero' = [zero EXCEPT ![Top.con] = "no"]
    /\ at' = IF stack[1].fn = "Sweep" THEN at + 1 ELSE at
    /\ Pop
    /\ UNCHANGED <<all, vwdc, cap, end, iter, mgr, heap>>

-----------------------------------------------------------------------------
Event   == \/ \E c \in Con : Accept(c) \/ ReadCb(c) \/ EventCb(c)
           \/ UserTimer \/ OnTimerDelConn \/ MgrDestroy
Library == \/ DeliverMsg \/ BadLength \/ ReadReturn \/ ForeachNext \/ ForeachEnd
           \/ SweepNext \/ SweepStale \/ SweepEnd
           \/ MgrDtorNext \/ MgrDtorStale \/ MgrDtorEnd
User    == \/ \E c \in Con : UserPostDelConn(c) \/ UserDisConnect(c) \/ UserSendOverflow(c)
           \/ UserForeach \/ UserReturn \/ ErrorReturn \/ DtorReturn

\* Nothing is promised about a program after undefined behaviour.
Step(A) == heap = "sound" /\ UNCHANGED prog /\ A

Next == Step(Event \/ Library \/ User)

Spec == Init /\ [][Next]_vars

(***************************************************************************)
(* Fairness.  Library code that is running goes on running.  A callback of *)
(* the program returns: it may call Foreach again and again, which         *)
(* disables its return while the functor runs, hence strong fairness, for  *)
(* each depth of the stack at which MaxDepth leaves room for a Foreach;    *)
(* above that a return that is enabled stays enabled.                      *)
(* The input of a connection is finite, so the read loop ends.  The loop   *)
(* runs due timers once per iteration, between the callbacks of other      *)
(* events, so the timer is not starved although it is not always enabled.  *)
(***************************************************************************)
CallbackReturn(d) == Len(stack) = d /\ (UserReturn \/ ErrorReturn \/ DtorReturn)

Fairness ==
    /\ WF_vars(Step(ForeachNext \/ ForeachEnd))
    /\ WF_vars(Step(SweepNext \/ SweepStale \/ SweepEnd))
    /\ WF_vars(Step(MgrDtorNext \/ MgrDtorStale \/ MgrDtorEnd))
    /\ \A d \in 1..(MaxDepth - 2) : SF_vars(Step(CallbackReturn(d)))
    /\ \A d \in (MaxDepth - 1)..MaxDepth : WF_vars(Step(CallbackReturn(d)))
    /\ SF_vars(Step(ReadReturn))
    /\ SF_vars(Step(OnTimerDelConn))

FairSpec == Spec /\ Fairness

-----------------------------------------------------------------------------
(* Properties *)

TypeOK ==
    /\ prog \in Programs
    /\ obj \in [Con -> {"unborn", "alive", "dying", "freed"}]
    /\ all \in SUBSET Con
    /\ open \in SUBSET Con
    /\ zero \in [Con -> {"no", "reads", "told", "shut"}]
    /\ vwdc \in Seq(Con)
    /\ cap \in Nat /\ Len(vwdc) <= cap
    /\ at \in Nat \ {0} /\ end \in Nat
    /\ iter \in {"valid", "stale"}
    /\ stack \in Seq(Frame)
    /\ mgr \in {"alive", "dying", "dead"}
    /\ heap \in {"sound", "corrupt"}

Sweeping == stack # <<>> /\ stack[1].fn = "Sweep"
\* Positions of m_vwdc whose object the timer still deletes.
Pending == {i \in 1..Len(vwdc) : mgr = "alive" /\ (Sweeping => i >= at)}
Doomed  == {vwdc[i] : i \in Pending}

\* No object has two owners that would both delete it: none is twice in the
\* vector, none in vector and map, and what is still to be deleted has not been
\* deleted yet.  This is about PostDelConn refusing an id it does not know,
\* although SvrCon::DisConnect, OnDisconnected and user code all post.
SingleOwner ==
    /\ \A i, j \in Pending : vwdc[i] = vwdc[j] => i = j
    /\ Doomed \cap all = {}
    /\ \A c \in Doomed : obj[c] \in {"alive", "dying"}
    /\ mgr = "alive" => \A c \in all : obj[c] = "alive"

\* Programs whose derived destructors leave the manager alone.
Quiet == "dtorUsesMgr" \notin prog

\* No object is forgotten: while the manager lives every constructed object is
\* in the map or waits in the vector, also the ones whose AcceptInit failed.
\* That is so for quiet programs; listener.h:32 promises it for all.
AllOwned ==
    mgr = "alive" => \A c \in Con : obj[c] = "alive" => c \in all \cup Doomed
NoOrphan == Quiet => AllOwned

\* No frame of the stack works on freed memory: the read loop looks at
\* this->m_fd after OnRecv, conn_event_callback calls DisConnect after OnError,
\* Foreach walks a copy of the pointers.  That is what deferring `delete' buys.
NoDangling ==
    Quiet => \A i \in 1..Len(stack) :
        /\ stack[i].con \in Con => obj[stack[i].con] # "freed"
        /\ stack[i].fn = "Foreach" => \A c \in stack[i].rest : obj[c] = "alive"

\* Whatever is posted, or has lost its socket, is eventually deleted.  A closed
\* socket leads there only because every DisConnect also posts.  (A manager that
\* dies leaves the objects that wait in m_vwdc.)  The exception is a connection
\* on descriptor 0: when its peer goes, DisConnect takes it for one that is not
\* connected (connector.cc:108), so it keeps its bufferevent and its place in
\* the map until user code posts it.
Tidy == prog \subseteq {"stdinClosed"}
Reclaimed ==
    Tidy => \A c \in Con :
        (obj[c] = "alive" /\ (c \notin all \/ c \notin Live)) ~> (obj[c] = "freed")

\* The manager implements ConLife: a Dtor frame counts as deleted.  Under other
\* than tidy programs the mapping shows nothing.
CallbackFn == {"ReadCb", "OnConnected", "OnRecv", "OnError", "ForeachCb"}
LifeSt ==
    [c \in Con |-> CASE ~Tidy \/ obj[c] = "unborn" -> "none"
                     [] Tidy /\ obj[c] = "alive" /\ c \in all -> "managed"
                     [] Tidy /\ obj[c] = "alive" /\ c \notin all -> "posted"
                     [] OTHER -> "gone"]
LifeBusy == {c \in Con : Tidy /\ \E i \in 1..Len(stack) : stack[i].fn \in CallbackFn /\ stack[i].con = c}
Life == INSTANCE ConLife WITH st <- LifeSt, busy <- LifeBusy
LifeSpec == Life!Spec

=============================================================================
