------------------------------- MODULE SvrConId -----------------------------
(***************************************************************************)
(* The identifiers of server connections (the constructor SvrCon::SvrCon,  *)
(* src/src/listener.cc): the low 32 bits of time() above a 32-bit counter  *)
(* that all connections of the process share.  Both wrap.                  *)
(*                                                                         *)
(* A comment in the constructor claims that the identifiers are unique if  *)
(* the process runs for less than 136 years and makes, in any second,      *)
(* fewer connections than 32 bits count.  The guards of NewSvrCon and Tick *)
(* are these conditions, and no more; time() never runs backwards.         *)
(***************************************************************************)
EXTENDS Integers, Sequences

CONSTANTS
    W,       \* values of 32 bits, 2^32
    Rate     \* bound: connections in one second

ASSUME WidthAssumption == W \in Nat \ {0}
ASSUME RateAssumption  == Rate \in Nat /\ Rate <= W

VARIABLES
    time,    \* the low 32 bits of time()
    age,     \* seconds since the start
    seed,    \* the static counter
    first,   \* index of the first connection made in this second
    born     \* all connections made: second of life of the process and m_id

vars == <<time, age, seed, first, born>>

Bits32 == 0..W - 1

\* Addition of one to an unsigned number of 32 bits.
Plus1(x) == IF x = W - 1 THEN 0 ELSE x + 1

Init ==
    /\ time \in Bits32 /\ age = 0
    /\ seed = 0
    /\ first = 1 /\ born = <<>>

\* m_id = sec << 32 | seed: the two halves do not overlap.
Id(sec, n) == [sec |-> sec, seed |-> n]

\* Mutant: the counter is not static.
NewSvrConLocalSeed ==
    /\ Len(born) + 1 - first < Rate
    /\ seed' = seed
    /\ born' = Append(born, [age |-> age, id |-> Id(time, Plus1(0))])
    /\ UNCHANGED <<time, age, first>>

\* Mutant: the counter does not wrap.
NewSvrConWide ==
    /\ Len(born) + 1 - first < Rate
    /\ seed' = seed + 1
    /\ born' = Append(born, [age |-> age, id |-> Id(time, seed')])
    /\ UNCHANGED <<time, age, first>>

NewSvrCon ==
    /\ Len(born) + 1 - first < Rate
    /\ seed' = Plus1(seed)
    /\ born' = Append(born, [age |-> age, id |-> Id(time, seed')])
    /\ UNCHANGED <<time, age, first>>

Tick ==
    /\ age < W - 1
    /\ time' = Plus1(time) /\ age' = age + 1
    /\ first' = Len(born) + 1
    /\ UNCHANGED <<seed, born>>

Next == NewSvrCon \/ Tick

Spec == Init /\ [][Next]_vars

-----------------------------------------------------------------------------
(* Properties *)

TypeOK ==
    /\ time \in Bits32 /\ age \in Bits32 /\ seed \in Bits32
    /\ first \in Nat
    /\ born \in Seq([age : Bits32, id : [sec : Bits32, seed : Bits32]])

\* No two connections of a process have the same identifier: ConMgr files its
\* connections under it.
IdsUnique ==
    \A i, j \in 1..Len(born) : born[i].id = born[j].id => i = j
=============================================================================
