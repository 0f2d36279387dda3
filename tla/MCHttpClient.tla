----------------------------- MODULE MCHttpClient ---------------------------
(* HttpClient for TLC: the programs and the networks. *)
EXTENDS HttpClient

\* Hosts that are numbers: connects and connections fail or not.
ByNumber ==
    [requests : {4}, deletes : {"no", "anytime"}, host : {"number"}, names : {1},
     net : SUBSET {"failsNow", "breaks"}]

\* Names, with name servers that work ...
ByName ==
    [requests : {3}, deletes : {"no", "inside", "anytime"}, host : {"name"}, names : {1, 2},
     net : {{}, {"failsNow"}, {"breaks", "nameFails"}}]

\* ... and with name servers that fail.
ByBadServers ==
    [requests : {2}, deletes : {"anytime"}, host : {"name"}, names : {1},
     net : {{"silent"}, {"servfails"}, {"silent", "unreachable"}}]
    \union [requests : {2}, deletes : {"anytime"}, host : {"name"}, names : {2},
            net : {{"unreachable"}}]
    \union [requests : {1}, deletes : {"no"}, host : {"name"}, names : {1},
            net : {{"refuses"}}]

AllPrograms == ByNumber \union ByName \union ByBadServers

\* A program that never deletes, on a network that may break a connection.
BreakingPrograms ==
    {[requests |-> 2, deletes |-> "no", host |-> "number", names |-> 1, net |-> {"breaks"}]}
=============================================================================
