----------------------------- MODULE MCEvbuffer ------------------------------
(* Evbuffer for TLC. *)
EXTENDS Evbuffer

CONSTANTS one, two

Use(role, calls, maxLen) == [role |-> role, calls |-> calls, maxLen |-> maxLen]
None == Use("plain", {}, 0)
Both(x, y) == [b \in Buffers |-> IF b = one THEN x ELSE y]

\* A buffer of each role on its own; an input whose bytes move into a buffer of the
\* program, as evhttp does with a body; a buffer that moves into an output.
Alone == {Use("plain", {"add", "printf", "prepend", "expand", "drain", "pullup"}, 5),
          Use("input", {"drain", "pullup", "prepend"}, 5),
          Use("output", {"add", "printf", "pullup"}, 6)}
MCPrograms ==
    {Both(x, None) : x \in Alone} \cup
    {Both(Use("input", {"move"}, 3), Use("plain", {"drain"}, 3)),
     Both(Use("output", {"add"}, 3), Use("plain", {"add", "move"}, 3))}
=============================================================================
