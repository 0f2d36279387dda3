----------------------------- MODULE MCEventBase ----------------------------
(* EventBase for TLC: one event of each kind. *)
EXTENDS EventBase

CONSTANTS t, l, r, w, s, d, x

MCBevs  == {[read |-> r, write |-> w]}
MCSigNo == [e \in Sigs |-> 1]
MCTv    == [e \in Timers \cup Ios |-> CASE e = w -> Forever [] e = r -> 2 [] OTHER -> 1]
MCUses == {{t, r}, {r, w, d}, {s, d, x}, {l, s}, {l, d, x}}
=============================================================================
