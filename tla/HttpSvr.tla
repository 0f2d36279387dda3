------------------------------- MODULE HttpSvr ------------------------------
(***************************************************************************)
(* BaseHttpSvr (src/src/http.cc) on the connections of libevent's evhttp   *)
(* (http.c): requests are read, RevRequest is called for each, its answer  *)
(* is written, and the connection goes on to the next request or closes.   *)
(*                                                                         *)
(* Every request is presented through one pointer, m_cur_req, whichever    *)
(* connection it came on.  A request may arrive in pieces and several may  *)
(* arrive at once: what is modelled of the bytes is the parts that the     *)
(* reader tells apart (`Parts').                                           *)
(***************************************************************************)
EXTENDS Integers, Sequences, FiniteSets

LOCAL INSTANCE SequencesExt

CONSTANTS
    Conns,        \* connections that peers may open
    Streams,      \* what the peer of each may send: sets of sequences of kinds of request
    SvrPrograms   \* what a program may do: records [does : SUBSET Deeds]

\* The calls a program makes in RevRequest; "DeleteLater" deletes the server
\* between two events.
Deeds == {"Send", "Reply", "Delete", "DeleteLater"}

\* Kinds of request: "get" has no body, "close" is one that asks for the end of
\* the connection, "expect" waits for the status line 100, "options" is refused
\* by evhttp itself, and the bad ones break off where their name says.
Kinds == {"get", "close", "post", "chunked", "expect", "options",
          "badline", "badhead", "badchunk", "badexpect"}

Parts(kind) ==
    CASE kind \in {"get", "close", "options"} -> <<"line", "head">>
      [] kind \in {"post", "expect"}          -> <<"line", "head", "body">>
      [] kind = "chunked"                     -> <<"line", "head", "last", "trailer">>
      [] kind = "badline"                     -> <<"badline">>
      [] kind = "badhead"                     -> <<"line", "badhead">>
      [] kind = "badchunk"                    -> <<"line", "head", "badchunk">>
      [] kind = "badexpect"                   -> <<"line", "head", "body">>

ASSUME StreamsAssumption    == \A c \in Conns : Streams[c] \subseteq Seq(Kinds)
ASSUME SvrProgramAssumption == SvrPrograms \subseteq [does : SUBSET Deeds]

VARIABLES
    svr,      \* "alive" or "freed": the BaseHttpSvr
    does,     \* the deeds of the program
    curReq,   \* m_cur_req: <<connection, number of the request on it>>, or NoReq
    state,    \* evcon->state, "none" before and "freed" after the life of a connection
    nth,      \* number of the request at the head of evcon->requests
    read,     \* EV_READ enabled, "yes" or "no"
    readcb,   \* the read callback is set, "yes" or "no"
    write,    \* EV_WRITE enabled, "yes" or "no"
    cb,       \* evcon->cb: "null", "continue", "done"
    more,     \* read_more_deferred_cb is scheduled, "yes" or "no"
    closing,  \* the answer says Connection: close, "yes" or "no"
    userdone, \* req->userdone, "yes" or "no"
    stream,   \* the requests of the peer
    sent,     \* parts the peer has sent
    arrived,  \* parts of these in the input buffer or taken from it
    pos,      \* parts taken from it
    out,      \* output buffer: Continue, or the number of the request answered
    got,      \* the same, received by the peer
    eof,      \* "yes" once the peer has closed its end
    calls,    \* frames: <<"read", c>> in evhttp_read_cb, <<"RevRequest", c>> in user code
    trouble   \* "corrupt" once freed memory was used, else "none"

input  == <<stream, sent, arrived, pos, eof>>
output == <<out, got>>
bev    == <<read, readcb, write, cb>>
request == <<nth, closing, userdone>>
server == <<svr, does, curReq>>
svrVars == <<svr, does, curReq, state, nth, read, readcb, write, cb, more, closing, userdone,
             stream, sent, arrived, pos, out, got, eof, calls, trouble>>

NoReq == <<>>
Continue == 0      \* status line 100 in an output, among the numbers of requests
Idle  == calls = <<>>
Top   == Head(calls)
Running(fn) == calls # <<>> /\ Top[1] = fn
Con   == Top[2]
Return == calls' = Tail(calls)
Live(c) == state[c] \notin {"none", "freed"}

Init ==
    /\ svr = "alive" /\ does \in {p.does : p \in SvrPrograms} /\ curReq = NoReq
    /\ state = [c \in Conns |-> "none"] /\ nth = [c \in Conns |-> 0]
    /\ read = [c \in Conns |-> "no"] /\ readcb = [c \in Conns |-> "no"]
    /\ write = [c \in Conns |-> "no"] /\ cb = [c \in Conns |-> "null"]
    /\ more = [c \in Conns |-> "no"]
    /\ closing = [c \in Conns |-> "no"] /\ userdone = [c \in Conns |-> "no"]
    /\ stream = [c \in Conns |-> <<>>] /\ sent = [c \in Conns |-> 0]
    /\ arrived = [c \in Conns |-> 0] /\ pos = [c \in Conns |-> 0]
    /\ out = [c \in Conns |-> <<>>] /\ got = [c \in Conns |-> <<>>]
    /\ eof = [c \in Conns |-> "no"]
    /\ calls = <<>> /\ trouble = "none"

-----------------------------------------------------------------------------
(* Reading what the peer sent *)

AllParts(s) == FlattenSeq([i \in DOMAIN s |-> Parts(s[i])])
Total(s, k) == Len(AllParts(SubSeq(s, 1, k)))        \* parts of the first k requests
HasPart(c)  == pos[c] < arrived[c]
Next1(c)    == AllParts(stream[c])[pos[c] + 1]
Kind(c)     == stream[c][nth[c]]
Enter(c, s) == state' = [state EXCEPT ![c] = s]

\* Mutant: what is buffered already waits for the next read event.
StartReadLater(c) ==
    /\ write' = [write EXCEPT ![c] = "no"] /\ read' = [read EXCEPT ![c] = "yes"]
    /\ readcb' = [readcb EXCEPT ![c] = "yes"]
    /\ Enter(c, "firstline")
    /\ UNCHANGED more

\* evhttp_start_read_: a request that is buffered already is read from a
\* deferred callback.
StartRead(c) ==
    /\ write' = [write EXCEPT ![c] = "no"] /\ read' = [read EXCEPT ![c] = "yes"]
    /\ readcb' = [readcb EXCEPT ![c] = "yes"]
    /\ Enter(c, "firstline")
    /\ more' = [more EXCEPT ![c] = IF HasPart(c) THEN "yes" ELSE @]

\* evhttp_associate_new_request_with_connection
NewRequest(c) ==
    /\ nth' = [nth EXCEPT ![c] = @ + 1]
    /\ closing' = [closing EXCEPT ![c] = "no"] /\ userdone' = [userdone EXCEPT ![c] = "yes"]
    /\ StartRead(c)

\* evhttp_get_request
Accept(c, s) ==
    /\ Idle /\ svr = "alive" /\ state[c] = "none"
    /\ stream' = [stream EXCEPT ![c] = s]
    /\ NewRequest(c)
    /\ UNCHANGED <<server, cb, sent, arrived, pos, output, eof, calls, trouble>>

\* A part is on its way, unless it is the body that waits for the status line 100.
PeerSend(c) ==
    /\ Live(c) /\ eof[c] = "no" /\ sent[c] < Len(AllParts(stream[c]))
    /\ \A k \in DOMAIN stream[c] :
         stream[c][k] = "expect" /\ sent[c] = Total(stream[c], k) - 1 => Continue \in Range(got[c])
    /\ sent' = [sent EXCEPT ![c] = @ + 1]
    /\ UNCHANGED <<server, state, request, bev, more, stream, arrived, pos, output, eof, calls, trouble>>

PeerCloses(c) ==
    /\ Live(c) /\ eof[c] = "no"
    /\ eof' = [eof EXCEPT ![c] = "yes"]
    /\ UNCHANGED <<server, state, request, bev, more, stream, sent, arrived, pos, output, calls, trouble>>

\* evhttp_read_cb begins: the deferred callback is cancelled.
ReadCb(c) == calls' = <<<<"read", c>>>> /\ more' = [more EXCEPT ![c] = "no"]

\* bufferevent_readcb: bytes are read, also while nobody waits for them.
ReadEvent(c) ==
    /\ Idle /\ Live(c) /\ read[c] = "yes"
    /\ \E n \in arrived[c] + 1..sent[c] : arrived' = [arrived EXCEPT ![c] = n]
    /\ IF readcb[c] = "yes" THEN ReadCb(c) ELSE UNCHANGED <<calls, more>>
    /\ UNCHANGED <<server, state, request, bev, stream, sent, pos, eof, output, trouble>>

\* evhttp_deferred_read_cb, with the connection as its argument
DeferredRead(c) ==
    /\ Idle /\ more[c] = "yes"
    /\ ReadCb(c)
    /\ trouble' = IF Live(c) THEN trouble ELSE "corrupt"
    /\ UNCHANGED <<server, state, request, bev, input, output>>

-----------------------------------------------------------------------------
(* Answers *)

\* Mutant: the read callback stays set.
SendKeepsReadCb(c) ==
    /\ userdone' = [userdone EXCEPT ![c] = "yes"]
    /\ out' = [out EXCEPT ![c] = Append(@, nth[c])]
    /\ cb' = [cb EXCEPT ![c] = "done"] /\ readcb' = readcb
    /\ write' = [write EXCEPT ![c] = "yes"]

\* evhttp_send and evhttp_write_buffer: the answer is appended to the output;
\* from now on bytes that arrive are not looked at.
Send(c) ==
    /\ userdone' = [userdone EXCEPT ![c] = "yes"]
    /\ out' = [out EXCEPT ![c] = Append(@, nth[c])]
    /\ cb' = [cb EXCEPT ![c] = "done"] /\ readcb' = [readcb EXCEPT ![c] = "no"]
    /\ write' = [write EXCEPT ![c] = "yes"]

\* evhttp_send_reply
SendReply(c) == Send(c) /\ UNCHANGED <<closing, read>>

\* evhttp_send_error, evhttp_send_page_: an error page ends the connection.
SendError(c) == Send(c) /\ closing' = [closing EXCEPT ![c] = "yes"] /\ UNCHANGED read

\* evhttp_connection_fail_ for what is wrong with the request: evhttp_handle_request
\* is called without a URI and answers itself.
Fail(c) ==
    /\ Send(c)
    /\ closing' = [closing EXCEPT ![c] = "yes"]
    /\ read' = [read EXCEPT ![c] = "no"]

\* Mutant: the deferred callback stays scheduled.
FreeConKeepsDeferred(c) ==
    /\ Enter(c, "freed")
    /\ out' = [out EXCEPT ![c] = <<>>]
    /\ UNCHANGED <<bev, request, more>>

\* evhttp_connection_free
FreeCon(c) ==
    /\ Enter(c, "freed")
    /\ more' = [more EXCEPT ![c] = "no"] /\ out' = [out EXCEPT ![c] = <<>>]
    /\ UNCHANGED <<bev, request>>

\* evhttp_send_done: the request is over; the connection closes or goes on.
SendDone(c) ==
    IF closing[c] = "yes" \/ Kind(c) = "close"
    THEN FreeCon(c)
    ELSE NewRequest(c) /\ out' = [out EXCEPT ![c] = <<>>] /\ UNCHANGED cb

\* bufferevent_writecb: evhttp_write_cb runs when everything is written.
WriteEvent(c) ==
    /\ Idle /\ Live(c) /\ write[c] = "yes" /\ out[c] # <<>>
    /\ \E n \in 1..Len(out[c]) :
         /\ got' = [got EXCEPT ![c] = @ \o SubSeq(out[c], 1, n)]
         /\ IF n < Len(out[c])
            THEN /\ out' = [out EXCEPT ![c] = SubSeq(@, n + 1, Len(@))]
                 /\ UNCHANGED <<state, request, bev, more>>
            ELSE CASE cb[c] = "done"     -> SendDone(c)
                   [] cb[c] = "continue" -> /\ write' = [write EXCEPT ![c] = "no"]
                                            /\ out' = [out EXCEPT ![c] = <<>>]
                                            /\ UNCHANGED <<state, request, read, readcb, cb, more>>
                   [] cb[c] = "null"     -> /\ out' = [out EXCEPT ![c] = <<>>]
                                            /\ UNCHANGED <<state, request, bev, more>>
    /\ UNCHANGED <<server, input, calls, trouble>>

\* evhttp_error_cb: the connection is over.  The peer's end of file comes after
\* what it sent, a reset whenever the connection is used.
ErrorEvent(c) ==
    /\ Idle /\ Live(c) /\ eof[c] = "yes"
    /\ \/ read[c] = "yes" /\ arrived[c] = sent[c]
       \/ write[c] = "yes" /\ out[c] # <<>>
    /\ FreeCon(c)
    /\ UNCHANGED <<server, input, got, calls, trouble>>
-----------------------------------------------------------------------------
(* evhttp_read_cb.  It goes through the states of the connection as far as   *)
(* the parts in the buffer carry; each step below is one of its functions.   *)

Reading(s) == Running("read") /\ state[Con] = s

\* The next part is what the function reads, and it is taken.
Takes(part) ==
    /\ HasPart(Con) /\ Next1(Con) = part
    /\ pos' = [pos EXCEPT ![Con] = @ + 1]

\* Nothing to read; more comes with the next event.
ReadMore ==
    /\ Running("read") /\ ~HasPart(Con)
    /\ state[Con] \in {"firstline", "headers", "body", "trailer"}
    /\ Return
    /\ UNCHANGED <<server, state, request, bev, more, input, output, trouble>>

ReadFirstLine ==
    /\ Reading("firstline") /\ Takes("line")
    /\ Enter(Con, "headers")
    /\ UNCHANGED <<server, request, bev, more, stream, sent, arrived, eof, output, calls, trouble>>

\* A part that is not what it should be.
ReadBad ==
    /\ \/ Reading("firstline") /\ Takes("badline")
       \/ Reading("headers") /\ Takes("badhead")
       \/ Reading("body") /\ Takes("badchunk")
    /\ Fail(Con)
    /\ Return
    /\ UNCHANGED <<server, state, nth, more, stream, sent, arrived, eof, got, trouble>>

\* evhttp_get_body: a body follows; a peer that waits for it gets status line 100.
ReadHeadersBody ==
    /\ Reading("headers") /\ Kind(Con) \in {"post", "chunked", "badchunk", "expect"} /\ Takes("head")
    /\ Enter(Con, "body")
    /\ IF Kind(Con) = "expect" /\ arrived[Con] = pos[Con] + 1
       THEN /\ write' = [write EXCEPT ![Con] = "yes"]
            /\ cb' = [cb EXCEPT ![Con] = "continue"]
            /\ out' = [out EXCEPT ![Con] = Append(@, Continue)]
       ELSE UNCHANGED <<write, cb, out>>
    /\ UNCHANGED <<server, request, read, readcb, more, stream, sent, arrived, eof, got, calls, trouble>>

\* An expectation that is not known: status 417, the body is never looked at.
ReadHeadersExpect ==
    /\ Reading("headers") /\ Kind(Con) = "badexpect" /\ Takes("head")
    /\ Enter(Con, "body")
    /\ SendError(Con)
    /\ Return
    /\ UNCHANGED <<server, nth, more, stream, sent, arrived, eof, got, trouble>>

\* The last chunk; the trailer follows.
ReadLastChunk ==
    /\ Reading("body") /\ Takes("last")
    /\ Enter(Con, "trailer")
    /\ UNCHANGED <<server, request, bev, more, stream, sent, arrived, eof, output, calls, trouble>>

\* evhttp_handle_request refuses the method itself.
ReadRefused ==
    /\ Reading("headers") /\ Kind(Con) = "options" /\ Takes("head")
    /\ Enter(Con, "writing")
    /\ SendError(Con)
    /\ Return
    /\ UNCHANGED <<server, nth, more, stream, sent, arrived, eof, got, trouble>>

\* The request is complete; reading goes on only if it had no body.
Completed ==
    \/ Reading("headers") /\ Kind(Con) \in {"get", "close"} /\ Takes("head") /\ UNCHANGED read
    \/ /\ \/ Reading("body") /\ Takes("body")
          \/ Reading("trailer") /\ Takes("trailer")
       /\ read' = [read EXCEPT ![Con] = "no"]

\* evhttp_connection_done, RevRequestCB: the request is presented.  With another
\* one still presented it would be dropped.
RevRequestCB ==
    /\ Completed
    /\ Enter(Con, "writing")
    /\ userdone' = [userdone EXCEPT ![Con] = "no"]
    /\ IF curReq = NoReq
       THEN /\ curReq' = <<Con, nth[Con]>>
            /\ calls' = <<<<"RevRequest", Con>>>>
       ELSE Return /\ UNCHANGED curReq
    /\ UNCHANGED <<svr, does, nth, closing, readcb, write, cb, more, stream, sent, arrived, eof,
                   output, trouble>>

-----------------------------------------------------------------------------
(* RevRequest *)

Doing(op) == Running("RevRequest") /\ op \in does /\ svr = "alive"

\* Mutant: the request stays the current one.
UserSendKeeps ==
    /\ Doing("Send") /\ curReq # NoReq /\ userdone[Con] = "no"
    /\ SendReply(curReq[1]) \/ SendError(curReq[1])
    /\ UNCHANGED <<server, state, nth, more, input, got, calls, trouble>>

\* BaseHttpSvr::Send; a second one finds no request.
UserSend ==
    /\ Doing("Send") /\ curReq # NoReq /\ userdone[Con] = "no"
    /\ SendReply(curReq[1]) \/ SendError(curReq[1])
    /\ curReq' = NoReq
    /\ UNCHANGED <<svr, does, state, nth, more, input, got, calls, trouble>>

\* evhttp_send_reply on GetCurReq()
UserReply ==
    /\ Doing("Reply") /\ curReq # NoReq /\ userdone[Con] = "no"
    /\ SendReply(curReq[1])
    /\ UNCHANGED <<server, state, nth, more, input, got, calls, trouble>>

Deletes == Doing("Delete") \/ (Idle /\ svr = "alive" /\ "DeleteLater" \in does)

\* Mutant: the deferred callbacks stay scheduled.
UserDeleteKeepsDeferred ==
    /\ Deletes
    /\ svr' = "freed"
    /\ state' = [c \in Conns |-> "freed"]
    /\ out' = [c \in Conns |-> <<>>]
    /\ UNCHANGED <<does, curReq, bev, request, more, input, got, calls, trouble>>

\* ~BaseHttpSvr, evhttp_free: all connections go, and what was deferred for them.
UserDelete ==
    /\ Deletes
    /\ svr' = "freed"
    /\ state' = [c \in Conns |-> "freed"]
    /\ more' = [c \in Conns |-> "no"] /\ out' = [c \in Conns |-> <<>>]
    /\ UNCHANGED <<does, curReq, bev, request, input, got, calls, trouble>>

\* Mutant: the request that nobody answered stays the current one.
RevReturnKeeps ==
    /\ Running("RevRequest") /\ svr = "alive"
    /\ IF curReq = NoReq
       THEN UNCHANGED <<curReq, closing, userdone, bev, out>>
       ELSE SendError(curReq[1]) /\ UNCHANGED curReq
    /\ Return
    /\ UNCHANGED <<svr, does, state, nth, more, input, got, trouble>>

\* RevRequest returns: a request that is still the current one gets an error page.
RevReturn ==
    /\ Running("RevRequest") /\ svr = "alive"
    /\ IF curReq = NoReq
       THEN UNCHANGED <<closing, userdone, bev, out>>
       ELSE SendError(curReq[1])
    /\ curReq' = NoReq
    /\ Return
    /\ UNCHANGED <<svr, does, state, nth, more, input, got, trouble>>

\* ... and of a server that was deleted meanwhile m_cur_req is read.
RevReturnFreed ==
    /\ Running("RevRequest") /\ svr = "freed"
    /\ trouble' = "corrupt"
    /\ UNCHANGED <<server, state, request, bev, more, input, output, calls>>

-----------------------------------------------------------------------------
Peer(c)  == (\E s \in Streams[c] : Accept(c, s)) \/ PeerSend(c) \/ PeerCloses(c)
Event(c) == ReadEvent(c) \/ DeferredRead(c) \/ WriteEvent(c) \/ ErrorEvent(c)
ReadStep == \/ ReadMore \/ ReadFirstLine \/ ReadBad \/ ReadHeadersBody \/ ReadHeadersExpect
            \/ ReadLastChunk \/ ReadRefused \/ RevRequestCB
Program  == UserSend \/ UserReply \/ UserDelete \/ RevReturn \/ RevReturnFreed

Next == trouble = "none" /\ ((\E c \in Conns : Peer(c) \/ Event(c)) \/ ReadStep \/ Program)

Spec == Init /\ [][Next]_svrVars

\* The loop delivers the events of every connection, library code goes on and
\* RevRequest returns; a peer that got its status line 100 sends the body.
SvrFairness ==
    /\ WF_svrVars(trouble = "none" /\ (ReadStep \/ RevReturn \/ RevReturnFreed))
    /\ \A c \in Conns :
         /\ SF_svrVars(trouble = "none" /\ Event(c))
         /\ WF_svrVars(trouble = "none" /\ Continue \in Range(got[c]) /\ PeerSend(c))

FairSpec == Spec /\ SvrFairness

-----------------------------------------------------------------------------
(* Properties *)

Flag == [Conns -> {"yes", "no"}]
TypeOK ==
    /\ svr \in {"alive", "freed"} /\ does \in SUBSET Deeds
    /\ curReq = NoReq \/ curReq \in Conns \X (Nat \ {0})
    /\ state \in [Conns -> {"none", "firstline", "headers", "body", "trailer", "writing", "freed"}]
    /\ nth \in [Conns -> Nat]
    /\ read \in Flag /\ readcb \in Flag /\ write \in Flag /\ more \in Flag
    /\ cb \in [Conns -> {"null", "continue", "done"}]
    /\ closing \in Flag /\ userdone \in Flag /\ eof \in Flag
    /\ \A c \in Conns : stream[c] \in Streams[c] \cup {<<>>}
    /\ sent \in [Conns -> Nat] /\ arrived \in [Conns -> Nat] /\ pos \in [Conns -> Nat]
    /\ \A c \in Conns : pos[c] <= arrived[c] /\ arrived[c] <= sent[c]
    /\ out \in [Conns -> Seq(Nat)] /\ got \in [Conns -> Seq(Nat)]
    /\ calls = <<>> \/ calls \in Seq({"read", "RevRequest"} \X Conns)
    /\ trouble \in {"none", "corrupt"}

\* A peer that sends several requests takes the k-th answer for the answer to its
\* k-th request: each request that RevRequest was called for, or that evhttp
\* refused, is answered once and in its turn, so that what precedes the answer
\* to the k-th request is the answers to those before it.
Received(c, n) == {got[c][i] : i \in 1..n} \ {Continue}
AnsweredOnce ==
    \A c \in Conns : \A j \in 1..Len(got[c]) :
        got[c][j] # Continue => Received(c, j - 1) = 1..(got[c][j] - 1)
AnswersInTurn == "Reply" \notin does => AnsweredOnce

\* Between two events no request is presented, so that none is dropped because
\* of another; and one that is presented is the one its connection works on.
CurReqIsTrue ==
    TypeOK /\ (svr = "alive" =>
        /\ Idle => curReq = NoReq
        /\ curReq # NoReq => state[curReq[1]] = "writing" /\ nth[curReq[1]] = curReq[2])

\* No read callback runs while an answer is being written: evhttp_read_cb would
\* end the process with "illegal connection state" (http.c:1163).
ReadsInTurn == Running("read") => state[Con] \in {"firstline", "headers", "body", "trailer"}

\* No deferred callback outlives its connection, which an error, a last answer or
\* the deletion of the server between two events frees while the callback may be
\* scheduled.  A server that RevRequest deletes is the exception: RevRequestCB uses
\* it after the call.
NoUseAfterFree == "Delete" \notin does => trouble = "none"

\* Requests that were sent are answered, also those that arrive together with
\* earlier ones and those that wait for the status line 100, unless the
\* connection ends; after an error page and after a last answer it does end.
Arrives(c, k) ==
    \/ sent[c] >= Total(stream[c], k)
    \/ stream[c][k] = "expect" /\ sent[c] = Total(stream[c], k) - 1
Ended(c) == state[c] = "freed" \/ trouble # "none"
Served ==
    \A c \in Conns :
        /\ \A k \in UNION {DOMAIN s : s \in Streams[c]} :
             (k \in DOMAIN stream[c] /\ Arrives(c, k)) ~> (k \in Range(got[c]) \/ Ended(c) \/ eof[c] = "yes")
        /\ (closing[c] = "yes") ~> Ended(c)
=============================================================================
