----------------------------- MODULE MCClientCon ----------------------------
(* ClientCon for TLC: what peers send and what programs do. *)
EXTENDS ClientCon

\* A peer that sends two messages, one that breaks off with a bad length, one
\* that begins with a length above the maximum.
MCStreams == {<<1, 2>>, <<2, 0>>, <<MaxLen + 1>>}

\* The operations on the connection itself.
Basic == {"DisConnect", "Send", "Connect", "Delete"}
Plain(does, net) == [does |-> does, net |-> net, marks |-> {}]

\* Does anything anywhere, and everything may fail.
Reckless == Plain(UserFn \X Basic, {"failsNow", "zeroFd"})

\* Disconnects in every callback, and for that reconnects and deletes only from
\* code with no read loop below.
Disconnecting ==
    Plain((UserFn \X {"DisConnect", "Send"})
            \cup {<<"Program", "Connect">>, <<"Program", "Delete">>, <<"OnConnected", "Delete">>}, {})

\* Reconnects or deletes in OnDisconnected, and for that never disconnects in
\* OnRecv or OnError.
Reconnecting ==
    Plain(({"Program", "OnConnected"} \X Basic) \cup ({"OnDisconnected"} \X {"Connect", "Delete"}), {})

\* Only connects, over a network where a connect may fail at once.
Connecting == Plain({<<"Program", "Connect">>}, {"failsNow"})

\* Disconnects and connects again in OnRecv.
Switching == Plain({"Program", "OnRecv"} \X {"Connect", "DisConnect"}, {})

\* Decides for each connection how it is read, and may delete it as it reads.
RawReading ==
    Plain({<<"Program", "Connect">>, <<"Program", "DisConnect">>, <<"OnConnected", "SetRaw">>,
           <<"OnRawRecv", "DisConnect">>, <<"OnRawRecv", "Connect">>, <<"OnRawRecv", "Delete">>,
           <<"OnRecv", "DisConnect">>}, {})

\* Sets watermarks that leave room for every message; and some that do not.
Marking ==
    [does |-> {<<"Program", "Connect">>, <<"OnConnected", "SetMark">>, <<"OnRecv", "SetMark">>,
               <<"Program", "SetMark">>, <<"Program", "DisConnect">>},
     net |-> {},
     marks |-> {[low |-> HeadLen, high |-> HeadLen + MaxLen], NoMark}]
MarkingTight ==
    [Marking EXCEPT !.marks = {[low |-> HeadLen + MaxLen, high |-> HeadLen + 1]}]

MCAll       == {Reckless, Disconnecting, Reconnecting, Connecting, RawReading, Marking, MarkingTight}
MCSwitching == {Switching}
MCConnecting == {Connecting}
=============================================================================
