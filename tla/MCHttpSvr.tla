------------------------------ MODULE MCHttpSvr -----------------------------
(* HttpSvr for TLC.  Connection 1 meets every kind of request and every way    *)
(* one can follow another; connection 2 works at the same time.                *)
EXTENDS HttpSvr

MCStreams ==
    [c \in Conns |->
        IF c = 1
        THEN {<<"get", "post">>, <<"chunked", "close">>, <<"expect", "get">>, <<"options">>,
              <<"post", "badline">>, <<"badhead">>, <<"badchunk">>, <<"badexpect">>}
        ELSE {<<"get">>}]
MCSvr   == {[does |-> {"Send"}], [does |-> {"Send", "Delete"}],
            [does |-> {"Send", "DeleteLater"}], [does |-> {"Reply"}]}
=============================================================================
