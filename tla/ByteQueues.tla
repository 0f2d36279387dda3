------------------------------ MODULE ByteQueues -----------------------------
(***************************************************************************)
(* What evbuffers promise (event2/buffer.h): each is a queue of bytes, and *)
(* every call has the effect below, whatever memory the bytes lie in.      *)
(***************************************************************************)
EXTENDS Naturals, Sequences

CONSTANT Buffers
VARIABLE bytes

Drop(q, n) == SubSeq(q, n + 1, Len(q))
AtMost(b, n) == IF n < Len(bytes[b]) THEN n ELSE Len(bytes[b])

Add(b, x)     == bytes' = [bytes EXCEPT ![b] = @ \o x]
Prepend(b, x) == bytes' = [bytes EXCEPT ![b] = x \o @]
Drain(b, n)   == bytes' = [bytes EXCEPT ![b] = Drop(@, AtMost(b, n))]
Keep          == UNCHANGED bytes

\* The first n bytes of one buffer go to the end of another.
Move(src, dst, n) ==
    bytes' = [bytes EXCEPT ![src] = Drop(@, AtMost(src, n)),
                           ![dst] = @ \o SubSeq(bytes[src], 1, AtMost(src, n))]
=============================================================================
