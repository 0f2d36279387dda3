------------------------------- MODULE Evbuffer ------------------------------
(***************************************************************************)
(* The buffers every connection reads from and writes to: libevent's       *)
(* buffer.c, a list of chains of memory with a pointer to the last chain   *)
(* that holds data, without the kinds of chains (pinned, referenced,       *)
(* files) that this library does not use.                                  *)
(*                                                                         *)
(* A pointer to a pointer to a chain is the place of that chain in the     *)
(* list; last_with_datap of an empty list is 1.  buf->last is the last     *)
(* element.                                                                *)
(***************************************************************************)
EXTENDS Naturals, Sequences, FiniteSets

LOCAL INSTANCE SequencesExt
LOCAL INSTANCE FiniteSetsExt

CONSTANTS
    Buffers,
    Programs,     \* what is done with the buffers: for each of them a record
                  \* [role: "input", "output" or "plain", calls, maxLen]
    MinBuffer,    \* MIN_BUFFER_SIZE
    ChainSize,    \* EVBUFFER_CHAIN_SIZE, the header
    MaxAuto,      \* EVBUFFER_CHAIN_MAX_AUTO_SIZE
    MaxRealign,   \* MAX_TO_REALIGN_IN_EXPAND
    MaxCopy,      \* MAX_TO_COPY_IN_EXPAND
    Waste,        \* the share of a chain that is worth a resize, 8 in the code
    PrintfSpace,  \* the space evbuffer_add_vprintf asks for at first, 64 in the code
    ReadVecs,     \* NUM_READ_IOVEC
    WriteVecs,    \* NUM_WRITE_IOVEC
    MaxOp         \* bound: bytes of a call

ASSUME SizeAssumption ==
    /\ {MinBuffer, ChainSize, MaxAuto, MaxRealign, MaxCopy, Waste, PrintfSpace,
        ReadVecs, WriteVecs, MaxOp} \subseteq Nat
    /\ ChainSize < MinBuffer /\ Waste > 0 /\ ReadVecs >= 2 /\ WriteVecs >= 1

VARIABLES
    buf,     \* each evbuffer: [ch, lwd, total, add, del]
    program, \* one of Programs: its role and bound (maxLen) for each buffer
    pending  \* the write event of the bufferevent of an output is added

vars == <<buf, program, pending>>

\* A chain: buffer_len, misalign and the off bytes that follow it.
Chain(cap, mis, data) == [cap |-> cap, mis |-> mis, data |-> data]
Empty == [ch |-> <<>>, lwd |-> 1, total |-> 0, add |-> 0, del |-> 0]

Init ==
    /\ buf = [b \in Buffers |-> Empty]
    /\ program \in Programs
    /\ pending = [b \in Buffers |-> FALSE]

\* bufferevent_socket_new freezes the end of its input and the start of its output
\* for everybody but itself.
Role(b)        == program[b].role
FrozenEnd(b)   == Role(b) = "input"
FrozenStart(b) == Role(b) = "output"

-----------------------------------------------------------------------------
(* Chains *)

Off(c)   == Len(c.data)
Space(c) == c.cap - c.mis - Off(c)      \* CHAIN_SPACE_LEN
Cum(ch, i) == FoldLeft(LAMBDA a, c : a + Off(c), 0, SubSeq(ch, 1, i))
Bytes(b) == FlattenSeq([i \in DOMAIN b.ch |-> b.ch[i].data])

\* evbuffer_chain_new: the next power of two that holds header and data
NewChain(n, data) ==
    Chain(Min({c \in {MinBuffer * 2^k - ChainSize : k \in 0..5} : c >= n}), 0, data)

Append1(c, x) == [c EXCEPT !.data = @ \o x]
Align(c) == [c EXCEPT !.mis = 0]        \* evbuffer_chain_align
ShouldRealign(c, n) == c.cap - Off(c) >= n /\ Off(c) < c.cap \div 2 /\ Off(c) <= MaxRealign

\* evbuffer_free_trailing_empty_chains: the chains that stay
WithoutTrailing(b) ==
    SubSeq(b.ch, 1, Min({i - 1 : i \in {j \in b.lwd..Len(b.ch) : Off(b.ch[j]) = 0}} \cup {Len(b.ch)}))

\* evbuffer_chain_insert
InsertChain(b, c) ==
    LET kept == WithoutTrailing(b)
    IN  IF b.ch = <<>> THEN [b EXCEPT !.ch = <<c>>, !.total = @ + Off(c)]
        ELSE [b EXCEPT !.ch = Append(kept, c), !.total = @ + Off(c),
                       !.lwd = IF Off(c) > 0 THEN Len(kept) + 1 ELSE @]

\* advance_last_with_data
Advance(b) ==
    IF b.ch = <<>> THEN b
    ELSE [b EXCEPT !.lwd = Max({i \in @..Len(b.ch) : \A j \in (b.lwd + 1)..i : Off(b.ch[j]) > 0})]

-----------------------------------------------------------------------------
(* Adding *)

\* evbuffer_add
AddTo(b, x) ==
    LET b1   == IF b.ch = <<>> THEN InsertChain(b, NewChain(Len(x), <<>>)) ELSE b
        i    == b1.lwd
        c    == b1.ch[i]
        room == Space(c)
        twice == IF c.cap <= MaxAuto \div 2 THEN 2 * c.cap ELSE c.cap
        rest == SubSeq(x, room + 1, Len(x))
        full == [b1 EXCEPT !.ch[i] = Append1(c, SubSeq(x, 1, room)), !.total = @ + room]
        done == IF room >= Len(x)
                THEN [b1 EXCEPT !.ch[i] = Append1(c, x), !.total = @ + Len(x)]
                ELSE IF ShouldRealign(c, Len(x))
                THEN [b1 EXCEPT !.ch[i] = Append1(Align(c), x), !.total = @ + Len(x)]
                ELSE InsertChain(full, NewChain(Max({twice, Len(x)}), rest))
    IN  [done EXCEPT !.add = @ + Len(x)]

\* Mutant: the wrong end of the bytes.
LastOfFirst(x, n) == SubSeq(x, 1, n)

LastOf(x, n) == SubSeq(x, Len(x) - n + 1, Len(x))

\* evbuffer_prepend: into the misalignment as far as it goes, the rest into a new
\* chain.
PrependTo(b, x) ==
    LET b1   == IF b.ch = <<>> THEN InsertChain(b, NewChain(Len(x), <<>>)) ELSE b
        head == b1.ch[1]
        c    == IF Off(head) = 0 THEN [head EXCEPT !.mis = head.cap] ELSE head
        fits == Min({c.mis, Len(x)})
        cut  == Len(x) - fits
        old  == Chain(c.cap, c.mis - fits, LastOf(x, fits) \o c.data)
        new  == NewChain(cut, SubSeq(x, 1, cut))
        all  == [b1 EXCEPT !.ch[1] = old, !.total = @ + Len(x), !.add = @ + Len(x)]
    IN  IF cut = 0 THEN all
        ELSE [all EXCEPT !.ch = <<[new EXCEPT !.mis = new.cap - cut]>> \o @, !.lwd = @ + 1]

-----------------------------------------------------------------------------
(* Taking away *)

\* Without the first k chains, and r bytes of the next.
WithoutBytes(ch, k, r) ==
    [SubSeq(ch, k + 1, Len(ch)) EXCEPT ![1].mis = @ + r, ![1].data = SubSeq(@, r + 1, Len(@))]

\* evbuffer_drain: k chains go altogether.
DrainFrom(b, n) ==
    LET k == Max({i \in 0..Len(b.ch) : Cum(b.ch, i) <= n})
    IN  IF b.total = 0 THEN b
        ELSE IF n >= b.total THEN [Empty EXCEPT !.add = b.add, !.del = b.del + b.total]
        ELSE [b EXCEPT !.ch = WithoutBytes(@, k, n - Cum(b.ch, k)),
                       !.lwd = IF @ <= k + 1 THEN 1 ELSE @ - k,
                       !.total = @ - n, !.del = @ + n]

\* Mutant: the memory of the chain counts, not its data.
InFirstMemory(b, n) == b.ch[1].cap >= n

InFirst(b, n) == Off(b.ch[1]) >= n

Roomy(c, n) == c.cap - c.mis >= n

\* Mutant: the pointer moves with the list, also when its chain went.
PulledLwdMoves(b, s, k, rest) == IF b.lwd > k THEN b.lwd - k + 1 ELSE b.lwd

\* Where last_with_datap goes when the chains from s to k are freed.
PulledLwd(b, s, k, rest) ==
    IF b.lwd \in s..k THEN 1
    ELSE IF b.lwd - 1 \in s..k THEN IF rest # <<>> /\ Off(rest[1]) > 0 THEN 2 ELSE 1
    ELSE b.lwd - k + 1

\* evbuffer_pullup: the first n bytes into the first chain, or into a new one.
PullupOf(b, n) ==
    LET s == IF Roomy(b.ch[1], n) THEN 2 ELSE 1
        k == Max({i \in DOMAIN b.ch : Cum(b.ch, i) <= n})
        rest   == IF k = Len(b.ch) THEN <<>> ELSE WithoutBytes(b.ch, k, n - Cum(b.ch, k))
        pulled == SubSeq(Bytes(b), 1, n)
        first  == IF s = 2 THEN [b.ch[1] EXCEPT !.data = pulled] ELSE NewChain(n, pulled)
    IN  IF n = 0 \/ n > b.total \/ InFirst(b, n) THEN b
        ELSE [b EXCEPT !.ch = <<first>> \o rest, !.lwd = PulledLwd(b, s, k, rest)]

-----------------------------------------------------------------------------
(* Making room *)

\* The first chain with space that evbuffer_expand_singlechain and a read look at.
FirstSpace(b) ==
    IF b.lwd <= Len(b.ch) /\ Space(b.ch[b.lwd]) = 0 THEN b.lwd + 1 ELSE b.lwd

\* evbuffer_expand_singlechain: n bytes of space in one chain; the buffer, and the
\* place of that chain.
ExpandSingle(b, n) ==
    LET i == FirstSpace(b)
        new == LET b1 == InsertChain(b, NewChain(n, <<>>)) IN [buf |-> b1, at |-> Len(b1.ch)]
        at(c) == [buf |-> [b EXCEPT !.ch[i] = c], at |-> i]
        c == b.ch[i]
    IN  IF i > Len(b.ch) THEN new
        ELSE IF Space(c) >= n THEN at(c)
        ELSE IF Off(c) = 0 THEN new
        ELSE IF ShouldRealign(c, n) THEN at(Align(c))
        ELSE IF Space(c) >= c.cap \div Waste /\ Off(c) <= MaxCopy
        THEN at(NewChain(Off(c) + n, c.data))
        ELSE IF i < Len(b.ch) /\ Space(b.ch[i + 1]) >= n THEN [buf |-> b, at |-> i + 1]
        ELSE new

\* The chains that have no data start anew.
Realigned(b, stop) ==
    [b EXCEPT !.ch = [i \in DOMAIN @ |-> IF i \in b.lwd..stop /\ Off(b.ch[i]) = 0
                                         THEN Align(b.ch[i]) ELSE b.ch[i]]]

\* evbuffer_expand_fast_: n bytes of space in at most ReadVecs chains, without
\* moving data.
ExpandFast(b, n) ==
    LET last == Len(b.ch)
        room(i) == IF Off(b.ch[i]) > 0 THEN Space(b.ch[i]) ELSE b.ch[i].cap
        avail(i) == FoldSet(LAMBDA j, a : a + room(j), 0, b.lwd..i)
        used(i) == Cardinality({j \in b.lwd..i : room(j) > 0})
        stop == Min({i \in b.lwd..last : avail(i) >= n \/ used(i) = ReadVecs} \cup {last})
        b1   == Realigned(b, stop)
        kept == IF Off(b.ch[b.lwd]) > 0 THEN SubSeq(b.ch, 1, b.lwd) ELSE <<>>
        left == IF kept = <<>> THEN 0 ELSE Space(b.ch[b.lwd])
    IN  IF b.ch = <<>> THEN InsertChain(b, NewChain(n, <<>>))
        ELSE IF avail(stop) >= n THEN b1
        ELSE IF used(stop) < ReadVecs
        THEN [b1 EXCEPT !.ch = Append(@, NewChain(n - avail(stop), <<>>))]
        ELSE [b EXCEPT !.ch = Append(kept, NewChain(n - left, <<>>))]

\* evbuffer_read_setup_vecs_: the chains that are read into
ReadInto(b, n) ==
    LET first == FirstSpace(b)
        sofar(i) == FoldSet(LAMBDA j, a : a + Space(b.ch[j]), 0, first..i)
    IN  {i \in first..Min({Len(b.ch), first + ReadVecs - 1}) : i = first \/ sofar(i - 1) < n}

\* evbuffer_read of x into the chains that ExpandFast(b, n) made room in
ReadTo(b, n, x) ==
    LET b1 == ExpandFast(b, n)
        first == FirstSpace(b1)
        before(i) == FoldSet(LAMBDA j, a : a + Space(b1.ch[j]), 0, first..(i - 1))
        final == Min({i \in ReadInto(b1, n) : before(i) + Space(b1.ch[i]) >= Len(x)})
        part(i) == SubSeq(x, before(i) + 1, Min({before(i) + Space(b1.ch[i]), Len(x)}))
    IN  IF x = <<>> THEN b1
        ELSE [b1 EXCEPT !.ch = [i \in DOMAIN @ |-> IF i \in first..final
                                                   THEN Append1(b1.ch[i], part(i)) ELSE b1.ch[i]],
                        !.lwd = final, !.total = @ + Len(x), !.add = @ + Len(x)]

\* evbuffer_add_vprintf: vsnprintf needs a byte more than the text.
PrintfTo(b, x) ==
    LET e == ExpandSingle(b, PrintfSpace)
        g == IF Len(x) < Space(e.buf.ch[e.at]) THEN e ELSE ExpandSingle(e.buf, Len(x) + 1)
    IN  Advance([g.buf EXCEPT !.ch[g.at] = Append1(@, x), !.total = @ + Len(x), !.add = @ + Len(x)])

-----------------------------------------------------------------------------
(* Moving between buffers *)

\* Mutant: the bytes are not counted for the callbacks.
JoinedSilent(out, in) ==
    LET kept == IF out.total = 0 THEN <<>> ELSE WithoutTrailing(out)
    IN  [out EXCEPT !.ch = kept \o in.ch, !.lwd = Len(kept) + in.lwd, !.total = @ + in.total]

\* evbuffer_add_buffer: COPY_CHAIN or APPEND_CHAIN
Joined(out, in) ==
    LET kept == IF out.total = 0 THEN <<>> ELSE WithoutTrailing(out)
    IN  [out EXCEPT !.ch = kept \o in.ch, !.lwd = Len(kept) + in.lwd,
                    !.total = @ + in.total, !.add = @ + in.total]

\* evbuffer_remove_buffer, when src has more than n bytes: k whole chains are moved,
\* the rest is copied.
RemoveFrom(src, dst, n) ==
    LET k == Max({i \in 0..Len(src.ch) : Cum(src.ch, i) <= n})
        moved == Cum(src.ch, k)
        r == n - moved
        kept == WithoutTrailing(dst)
        d1 == IF moved = 0 THEN dst
              ELSE Advance([dst EXCEPT !.ch = kept \o SubSeq(src.ch, 1, k),
                                       !.total = @ + moved, !.add = @ + moved])
    IN  [src |-> [src EXCEPT !.ch = WithoutBytes(@, k, r),
                             !.lwd = IF @ <= k + 1 THEN 1 ELSE @ - k,
                             !.total = @ - n, !.del = @ + n],
         dst |-> AddTo(d1, SubSeq(src.ch[k + 1].data, 1, r))]

-----------------------------------------------------------------------------
(* The calls.  The bytes that are added continue the count modulo 3. *)

Run(from, n) == [i \in 1..n |-> (from + i) % 3]
After(b)  == LET q == Bytes(buf[b]) IN IF q = <<>> THEN 2 ELSE q[Len(q)]
Before(b, n) == LET q == Bytes(buf[b]) IN ((IF q = <<>> THEN 0 ELSE q[1]) + 2 * (n + 1)) % 3
Fits(b, n) == buf[b].total + n <= program[b].maxLen
Calls(b, call) == call \in program[b].calls

\* evbuffer_invoke_callbacks_: the bufferevent of an output is told of what was
\* added, and adds its write event (bufferevent_socket_outbuf_cb).
Told(new) ==
    /\ buf' = [b \in Buffers |-> [new[b] EXCEPT !.add = 0, !.del = 0]]
    /\ pending' = [b \in Buffers |-> pending[b] \/ (Role(b) = "output" /\ new[b].add > 0)]
    /\ UNCHANGED program

Set(b, new) == Told([buf EXCEPT ![b] = new])

EvbufferAdd(b, n) ==
    /\ Calls(b, "add") /\ ~FrozenEnd(b) /\ Fits(b, n)
    /\ Set(b, AddTo(buf[b], Run(After(b), n)))

EvbufferPrintf(b, n) ==
    /\ Calls(b, "printf") /\ ~FrozenEnd(b) /\ Fits(b, n)
    /\ Set(b, PrintfTo(buf[b], Run(After(b), n)))

EvbufferPrepend(b, n) ==
    /\ Calls(b, "prepend") /\ ~FrozenStart(b) /\ Fits(b, n)
    /\ Set(b, PrependTo(buf[b], Run(Before(b, n), n)))

EvbufferExpand(b, n) == Calls(b, "expand") /\ Set(b, ExpandSingle(buf[b], n).buf)

\* Also evbuffer_remove, which copies and drains.
EvbufferDrain(b, n) == Calls(b, "drain") /\ ~FrozenStart(b) /\ Set(b, DrainFrom(buf[b], n))

EvbufferPullup(b, n) == Calls(b, "pullup") /\ Set(b, PullupOf(buf[b], n))

EvbufferAddBuffer(out, in) ==
    /\ Calls(in, "move") /\ out # in /\ buf[in].total > 0
    /\ ~FrozenEnd(out) /\ ~FrozenStart(in) /\ Fits(out, buf[in].total)
    /\ Told([buf EXCEPT ![out] = Joined(buf[out], buf[in]),
                        ![in]  = [Empty EXCEPT !.del = buf[in].total]])

EvbufferRemoveBuffer(src, dst, n) ==
    /\ Calls(src, "move") /\ src # dst /\ n > 0 /\ n < buf[src].total
    /\ ~FrozenEnd(dst) /\ ~FrozenStart(src) /\ Fits(dst, n)
    /\ LET both == RemoveFrom(buf[src], buf[dst], n)
       IN  Told([buf EXCEPT ![src] = both.src, ![dst] = both.dst])

\* bufferevent_readcb: room for n bytes, of which some are read
EvbufferRead(b, n, got) ==
    /\ Role(b) = "input" /\ got <= n /\ Fits(b, got)
    /\ Set(b, ReadTo(buf[b], n, Run(After(b), got)))

\* bufferevent_writecb: as many bytes as the kernel takes, of the first WriteVecs
\* chains; the write event goes when nothing is left.
EvbufferWrite(b, n) ==
    /\ Role(b) = "output" /\ pending[b]
    /\ n <= Cum(buf[b].ch, Min({WriteVecs, Len(buf[b].ch)}))
    /\ LET new == IF n = 0 THEN buf[b] ELSE DrainFrom(buf[b], n)
       IN  /\ buf' = [buf EXCEPT ![b] = [new EXCEPT !.del = 0]]
           /\ pending' = [pending EXCEPT ![b] = new.total > 0]
    /\ UNCHANGED program

Next ==
    \/ \E b \in Buffers, n \in 0..MaxOp :
         \/ EvbufferAdd(b, n) \/ EvbufferPrintf(b, n) \/ EvbufferPrepend(b, n)
         \/ EvbufferExpand(b, n) \/ EvbufferDrain(b, n) \/ EvbufferPullup(b, n)
         \/ EvbufferWrite(b, n)
    \/ \E b \in Buffers, n, got \in 0..MaxOp : EvbufferRead(b, n, got)
    \/ \E a, b \in Buffers : EvbufferAddBuffer(a, b)
    \/ \E a, b \in Buffers, n \in 0..MaxOp : EvbufferRemoveBuffer(a, b, n)

Spec == Init /\ [][Next]_vars

-----------------------------------------------------------------------------
(* Properties *)

Byte == 0..2
TypeOK ==
    /\ \A b \in Buffers :
         /\ \A i \in DOMAIN buf[b].ch :
              LET c == buf[b].ch[i]
              IN  c.cap \in Nat /\ c.mis \in 0..c.cap /\ c.data \in Seq(Byte) /\ Space(c) \in Nat
         /\ buf[b].lwd \in 1..(Len(buf[b].ch) + 1) /\ buf[b].total \in 0..program[b].maxLen
         /\ buf[b].add = 0 /\ buf[b].del = 0
    /\ program \in Programs /\ pending \in [Buffers -> BOOLEAN]

\* What libevent's test evbuffer_validate_ asserts (test/regress_buffer.c:69): the
\* length is right, and last_with_datap designates the last chain with data, or the
\* first one if there are no data.
ChainsOk ==
    TypeOK /\ \A b \in Buffers : LET v == buf[b] IN
        /\ v.total = Len(Bytes(v))
        /\ v.ch = <<>> => v.lwd = 1
        /\ v.ch # <<>> =>
             /\ v.lwd \in DOMAIN v.ch
             /\ Off(v.ch[v.lwd]) = 0 => v.lwd = 1 /\ v.total = 0
             /\ \A i \in DOMAIN v.ch : i > v.lwd => Off(v.ch[i]) = 0

\* Every call has the effect on the bytes that ByteQueues gives it.
Queues == INSTANCE ByteQueues WITH bytes <- [b \in Buffers |-> Bytes(buf[b])]
CallsImplement ==
    [][\A b \in Buffers, n \in 0..MaxOp :
         /\ EvbufferAdd(b, n) \/ EvbufferPrintf(b, n) => Queues!Add(b, Run(After(b), n))
         /\ EvbufferPrepend(b, n) => Queues!Prepend(b, Run(Before(b, n), n))
         /\ EvbufferDrain(b, n) \/ EvbufferWrite(b, n) => Queues!Drain(b, n)
         /\ EvbufferExpand(b, n) \/ EvbufferPullup(b, n) => Queues!Keep
         /\ \A m \in 0..MaxOp : EvbufferRead(b, m, n) => Queues!Add(b, Run(After(b), n))
         /\ \A a \in Buffers : /\ EvbufferAddBuffer(a, b) => Queues!Move(b, a, buf[b].total)
                               /\ EvbufferRemoveBuffer(a, b, n) => Queues!Move(a, b, n)]_vars

\* Bytes that evbuffer_pullup is asked for lie in one piece, as the framing of
\* ClientCon relies on (src/src/connector.cc:172).
PulledUp ==
    \A b \in Buffers : \A n \in 1..buf[b].total :
        LET first == PullupOf(buf[b], n).ch[1].data
        IN  Len(first) >= n /\ SubSeq(first, 1, n) = SubSeq(Bytes(buf[b]), 1, n)

\* Bytes in the output of a bufferevent are on their way: the write event is added
\* as long as there are any, whichever calls brought them there.
WriteScheduled ==
    \A b \in Buffers : Role(b) = "output" /\ buf[b].total > 0 => pending[b]
=============================================================================
