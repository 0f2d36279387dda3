------------------------------ MODULE ConLife -------------------------------
(***************************************************************************)
(* What BaseConMgr promises about the objects it manages, independent of   *)
(* maps, vectors, timers and call stacks (the comments of                  *)
(* src/include/listener.h: user code never deletes a SvrCon, a posted one  *)
(* is deleted later, by the timer, so that no pointer in use goes wild):   *)
(*   - an object is managed from its creation until it is posted;          *)
(*   - it is deleted only after it was posted, once, and only at a moment  *)
(*     when no callback of any connection is running;                      *)
(*   - a posted object is eventually deleted.                              *)
(***************************************************************************)
CONSTANT Con

VARIABLES
    st,    \* per object: "none", "managed", "posted", "gone"
    busy   \* objects that have a callback running

lifeVars == <<st, busy>>

Init == st = [c \in Con |-> "none"] /\ busy = {}

Create(c) ==
    /\ st[c] = "none" /\ busy = {}
    /\ st' = [st EXCEPT ![c] = "managed"]
    /\ busy' \in {{}, {c}}

\* A callback of c starts; it may start for a posted object too.
Enter(c) ==
    /\ st[c] \in {"managed", "posted"}
    /\ busy' = busy \cup {c}
    /\ UNCHANGED st

\* Callbacks return.
Leave ==
    /\ busy' \in SUBSET busy
    /\ UNCHANGED st

\* An object is posted, possibly by the last thing a callback does.
Post(c) ==
    /\ st[c] = "managed"
    /\ st' = [st EXCEPT ![c] = "posted"]
    /\ busy' \in SUBSET busy

Delete(c) ==
    /\ st[c] = "posted" /\ busy = {}
    /\ st' = [st EXCEPT ![c] = "gone"]
    /\ UNCHANGED busy

Next == (\E c \in Con : Create(c) \/ Enter(c) \/ Post(c) \/ Delete(c)) \/ Leave

SafeSpec == Init /\ [][Next]_lifeVars
Spec == SafeSpec /\ \A c \in Con : SF_lifeVars(Delete(c))
=============================================================================
