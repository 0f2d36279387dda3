---------------------------- MODULE DataLemmas ------------------------------
(***************************************************************************)
(* Lemmas about the data of the models, which the proofs share: the C++    *)
(* stack (a sequence of frames, the running one last), libevent's queues   *)
(* (sequences without repetitions), and folds over sets and sequences.     *)
(*                                                                         *)
(* A fold is what a C loop over a list computes.  Its value is reached by  *)
(* induction, stated here for sets (SetInduction) because the provers      *)
(* cannot instantiate the induction theorems of the library, which take an *)
(* operator: whatever holds of the numbers is the set of those it holds of.*)
(***************************************************************************)
EXTENDS Integers, Sequences, SequencesExt, SequenceTheorems, FiniteSetTheorems,
        WellFoundedInduction, TLAPS

-----------------------------------------------------------------------------
(* The call stack. *)

LEMMA AppendFacts ==
    ASSUME NEW S, NEW s \in Seq(S), NEW f \in S
    PROVE  /\ Append(s, f) \in Seq(S)
           /\ Len(Append(s, f)) = Len(s) + 1
           /\ \A i \in 1..Len(s) : Append(s, f)[i] = s[i]
           /\ Append(s, f)[Len(s) + 1] = f
           /\ Append(s, f) # <<>>
  OBVIOUS

LEMMA FrontFacts ==
    ASSUME NEW S, NEW s \in Seq(S), s # <<>>
    PROVE  /\ SubSeq(s, 1, Len(s) - 1) \in Seq(S)
           /\ Len(SubSeq(s, 1, Len(s) - 1)) = Len(s) - 1
           /\ \A i \in 1..(Len(s) - 1) : SubSeq(s, 1, Len(s) - 1)[i] = s[i]
           /\ Len(s) \in Nat /\ Len(s) > 0
           /\ SubSeq(s, 1, Len(s) - 1) = <<>> <=> Len(s) = 1
<1>1. Len(s) \in Nat /\ Len(s) > 0
  BY EmptySeq, LenProperties
<1>2. \A i \in 1..(Len(s) - 1) : s[i] \in S
  BY <1>1, LenProperties
<1> DEFINE b == SubSeq(s, 1, Len(s) - 1)
<1>3. /\ b \in Seq(S)
      /\ Len(b) = IF 1 <= Len(s) - 1 THEN (Len(s) - 1) - 1 + 1 ELSE 0
      /\ \A i \in 1..((Len(s) - 1) - 1 + 1) : b[i] = s[1 + i - 1]
  <2>1. 1 \in Int /\ Len(s) - 1 \in Int
    BY <1>1
  <2> QED
    BY <2>1, <1>2, SubSeqProperties
<1> HIDE DEF b
<1>4. Len(b) = Len(s) - 1
  <2>1. CASE 1 <= Len(s) - 1
    <3>1. Len(b) = (Len(s) - 1) - 1 + 1
      BY <1>3, <2>1
    <3> QED
      BY <1>1, <3>1
  <2>2. CASE ~(1 <= Len(s) - 1)
    <3>1. Len(b) = 0
      BY <1>3, <2>2
    <3>2. \A n \in Nat : n > 0 /\ ~(1 <= n - 1) => n - 1 = 0
      OBVIOUS
    <3> QED
      BY <1>1, <2>2, <3>1, <3>2
  <2> QED
    BY <2>1, <2>2
<1>5. ASSUME NEW i \in 1..(Len(s) - 1) PROVE b[i] = s[i]
  <2>1. i \in 1..((Len(s) - 1) - 1 + 1) /\ 1 + i - 1 = i
    BY <1>1
  <2> QED
    BY <2>1, <1>3
<1>6. b = <<>> <=> Len(s) = 1
  <2>1. b = <<>> <=> Len(b) = 0
    BY <1>3, EmptySeq
  <2> QED
    BY <2>1, <1>4, <1>1
<1> QED
  BY <1>1, <1>3, <1>4, <1>5, <1>6 DEF b

\* A call that leaves two frames.
LEMMA TwoFacts ==
    ASSUME NEW S, NEW s \in Seq(S), NEW f \in S, NEW g \in S
    PROVE  /\ s \o <<f, g>> \in Seq(S)
           /\ Len(s) \in Nat /\ Len(s \o <<f, g>>) = Len(s) + 2
           /\ \A i \in 1..Len(s) : (s \o <<f, g>>)[i] = s[i]
           /\ (s \o <<f, g>>)[Len(s) + 1] = f /\ (s \o <<f, g>>)[Len(s) + 2] = g
  OBVIOUS

LEMMA PairFacts ==
    ASSUME NEW S, NEW f \in S, NEW g \in S
    PROVE  /\ <<f>> \in Seq(S) /\ Len(<<f>>) = 1 /\ <<f>>[1] = f /\ <<f>> # <<>>
           /\ <<f, g>> \in Seq(S) /\ Len(<<f, g>>) = 2 /\ <<f, g>>[1] = f /\ <<f, g>>[2] = g
           /\ <<f, g>> # <<>>
  OBVIOUS

-----------------------------------------------------------------------------
(* Induction. *)

\* A set of numbers with 0 and with the successor of each is all of Nat.
LEMMA SetInduction ==
    ASSUME NEW P \in SUBSET Nat, 0 \in P, \A n \in P : n + 1 \in P
    PROVE  P = Nat
<1>1. IsWellFoundedOn(OpToRel(<, Nat), Nat)
  BY NatLessThanWellFounded, Zenon
<1>2. SUFFICES ASSUME Nat \ P # {} PROVE FALSE
  OBVIOUS
<1>3. PICK x \in Nat \ P : \A y \in Nat \ P : ~(<<y, x>> \in OpToRel(<, Nat))
  BY <1>1, <1>2, WFMin, Zenon
<1>4. \A y \in Nat \ P : ~(y < x)
  BY <1>3 DEF OpToRel
<1> QED
  BY <1>4

LEMMA MinIsLeast ==
    ASSUME NEW I \in SUBSET Nat, I # {}
    PROVE  Min(I) \in I /\ \A j \in I : Min(I) <= j
<1>1. IsWellFoundedOn(OpToRel(<, Nat), Nat)
  BY NatLessThanWellFounded, Zenon
<1>2. PICK x \in I : \A y \in I : ~(<<y, x>> \in OpToRel(<, Nat))
  BY <1>1, WFMin, Zenon
<1>3. \A y \in I : ~(y < x)
  BY <1>2 DEF OpToRel
<1>4. \A y \in I : x =< y
  BY <1>3
<1> QED
  BY <1>4 DEF Min

LEMMA MaxIsGreatest ==
    ASSUME NEW n \in Nat, NEW I \in SUBSET (1..n), I # {}
    PROVE  Max(I) \in I /\ \A j \in I : Max(I) >= j
<1> DEFINE D == {d \in Nat : n - d \in I}
<1>1. D \in SUBSET Nat /\ D # {}
  <2>1. PICK i \in I : TRUE
    OBVIOUS
  <2>2. n - i \in Nat /\ n - (n - i) = i
    OBVIOUS
  <2> QED
    BY <2>1, <2>2
<1>2. Min(D) \in D /\ \A d \in D : Min(D) <= d
  BY <1>1, MinIsLeast
<1> DEFINE x == n - Min(D)
<1>3. x \in I
  BY <1>2
<1>4. ASSUME NEW y \in I PROVE x >= y
  <2>1. n - y \in D
    <3>1. n - y \in Nat /\ n - (n - y) = y
      OBVIOUS
    <3> QED
      BY <3>1
  <2>2. Min(D) <= n - y /\ Min(D) \in Nat /\ y \in Nat
    BY <1>2, <2>1
  <2> QED
    BY <2>2
<1> HIDE DEF x
<1> QED
  BY <1>3, <1>4 DEF Max

-----------------------------------------------------------------------------
(* Queues. *)

LEMMA RemoveAtFacts ==
    ASSUME NEW S, NEW s \in Seq(S), NEW i \in 1..Len(s)
    PROVE  /\ RemoveAt(s, i) \in Seq(S)
           /\ Len(RemoveAt(s, i)) = Len(s) - 1
           /\ \A j \in 1..Len(s) - 1 : RemoveAt(s, i)[j] = IF j < i THEN s[j] ELSE s[j + 1]
<1>1. Len(s) \in Nat /\ i \in Nat /\ i >= 1 /\ i <= Len(s) /\ \A k \in 1..Len(s) : s[k] \in S
  BY LenProperties
<1> DEFINE a == SubSeq(s, 1, i - 1)
           b == SubSeq(s, i + 1, Len(s))
<1>2. a \in Seq(S) /\ Len(a) = i - 1 /\ \A j \in 1..i - 1 : a[j] = s[j]
  <2>1. \A k \in 1..i - 1 : s[k] \in S
    BY <1>1
  <2> QED
    BY <1>1, <2>1
<1>3. b \in Seq(S) /\ Len(b) = Len(s) - i /\ \A j \in 1..Len(s) - i : b[j] = s[i + j]
  <2>1. \A k \in i + 1..Len(s) : s[k] \in S
    BY <1>1
  <2> QED
    BY <1>1, <2>1
<1> HIDE DEF a, b
<1>4. /\ a \o b \in Seq(S) /\ Len(a \o b) = Len(s) - 1
      /\ \A j \in 1..Len(s) - 1 : (a \o b)[j] = IF j <= i - 1 THEN a[j] ELSE b[j - (i - 1)]
  <2>1. /\ a \o b \in Seq(S) /\ Len(a \o b) = Len(a) + Len(b)
        /\ \A j \in 1..Len(a) + Len(b) : (a \o b)[j] = IF j <= Len(a) THEN a[j] ELSE b[j - Len(a)]
    BY <1>2, <1>3, ConcatProperties
  <2>2. Len(a) = i - 1 /\ Len(b) = Len(s) - i
    BY <1>2, <1>3
  <2>3. Len(a) + Len(b) = Len(s) - 1
    BY <1>1, <2>2
  <2> QED
    BY <2>1, <2>2, <2>3
<1>5. ASSUME NEW j \in 1..Len(s) - 1
      PROVE  (a \o b)[j] = IF j < i THEN s[j] ELSE s[j + 1]
  <2>1. CASE j < i
    BY <1>1, <1>2, <1>4, <2>1
  <2>2. CASE ~(j < i)
    <3>1. j - (i - 1) \in 1..Len(s) - i /\ i + (j - (i - 1)) = j + 1 /\ ~(j <= i - 1)
      BY <1>1, <2>2
    <3> QED
      BY <1>3, <1>4, <2>2, <3>1
  <2> QED
    BY <2>1, <2>2
<1>6. RemoveAt(s, i) = a \o b
  BY DEF RemoveAt, a, b
<1> QED
  BY <1>4, <1>5, <1>6

\* TAILQ_REMOVE: the others stay, in their order.
LEMMA RemoveFirstFacts ==
    ASSUME NEW S, NEW q \in Seq(S), NEW e, IsInjective(q)
    PROVE  /\ RemoveFirst(q, e) \in Seq(S) /\ IsInjective(RemoveFirst(q, e))
           /\ \A u : Contains(RemoveFirst(q, e), u) <=> Contains(q, u) /\ u # e
           /\ Len(RemoveFirst(q, e)) = IF Contains(q, e) THEN Len(q) - 1 ELSE Len(q)
<1>0. Len(q) \in Nat /\ DOMAIN q = 1..Len(q)
  BY LenProperties
<1>1. CASE ~Contains(q, e)
  BY <1>1 DEF RemoveFirst, Contains
<1>2. CASE Contains(q, e)
  <2> DEFINE I == {i \in 1..Len(q) : q[i] = e}
             i == Min(I)
             r == RemoveAt(q, i)
  <2>1. i \in I
    <3>1. I \in SUBSET Nat /\ I # {}
      BY <1>2, <1>0 DEF Contains
    <3> HIDE DEF I
    <3> QED
      BY <3>1, MinIsLeast
  <2>2. RemoveFirst(q, e) = r
    <3>1. I # {}
      BY <2>1
    <3>2. SelectInSeq(q, LAMBDA x : x = e) = i
      BY <3>1 DEF SelectInSeq
    <3> HIDE DEF I, i
    <3> QED
      BY <1>2, <3>2 DEF RemoveFirst, Contains
  <2> HIDE DEF i
  <2>3. i \in 1..Len(q) /\ q[i] = e
    BY <2>1, Zenon
  <2> HIDE DEF I
  <2>4. /\ r \in Seq(S) /\ Len(r) = Len(q) - 1
        /\ \A j \in 1..Len(r) : r[j] = IF j < i THEN q[j] ELSE q[j + 1]
    BY <2>3, <1>0, RemoveAtFacts, Zenon
  <2>5. DOMAIN r = 1..Len(r)
    BY <2>4, LenProperties
  <2> HIDE DEF r
  <2> DEFINE at(j) == IF j < i THEN j ELSE j + 1
  <2>6. \A j \in 1..Len(r) : at(j) \in 1..Len(q) /\ at(j) # i /\ r[j] = q[at(j)]
    BY <1>0, <2>3, <2>4
  <2>7. \A j, k \in 1..Len(r) : at(j) = at(k) => j = k
    BY <1>0, <2>3, <2>4
  <2>8. \A k \in 1..Len(q) : k # i => \E j \in 1..Len(r) : at(j) = k
    <3>1. ASSUME NEW k \in 1..Len(q), k < i
          PROVE  k \in 1..Len(r) /\ at(k) = k
      BY <1>0, <2>3, <2>4, <3>1
    <3>2. ASSUME NEW k \in 1..Len(q), k > i
          PROVE  k - 1 \in 1..Len(r) /\ at(k - 1) = k
      BY <1>0, <2>3, <2>4, <3>2
    <3> QED
      BY <1>0, <2>3, <3>1, <3>2
  <2> HIDE DEF at
  <2>9. IsInjective(r)
    <3> SUFFICES ASSUME NEW j \in 1..Len(r), NEW k \in 1..Len(r), r[j] = r[k] PROVE j = k
      BY <2>5 DEF IsInjective
    <3>1. at(j) \in 1..Len(q) /\ at(k) \in 1..Len(q) /\ q[at(j)] = q[at(k)]
      BY <2>6
    <3>2. at(j) = at(k)
      BY <3>1, <1>0 DEF IsInjective
    <3> QED
      BY <3>2, <2>7
  <2>10. ASSUME NEW u PROVE Contains(r, u) <=> Contains(q, u) /\ u # e
    <3>1. ASSUME NEW j \in 1..Len(r), r[j] = u PROVE Contains(q, u) /\ u # e
      <4>1. at(j) \in 1..Len(q) /\ at(j) # i /\ q[at(j)] = u
        BY <2>6, <3>1
      <4> QED
        BY <4>1, <2>3, <1>0 DEF IsInjective, Contains
    <3>2. ASSUME NEW k \in 1..Len(q), q[k] = u, u # e PROVE Contains(r, u)
      <4>1. k # i
        BY <2>3, <3>2
      <4>2. PICK j \in 1..Len(r) : at(j) = k
        BY <2>8, <4>1
      <4> QED
        BY <2>6, <3>2, <4>2 DEF Contains
    <3> QED
      BY <3>1, <3>2 DEF Contains
  <2> QED
    BY <1>2, <2>2, <2>4, <2>9, <2>10
<1> QED
  BY <1>1, <1>2

LEMMA AppendQueue ==
    ASSUME NEW S, NEW q \in Seq(S), NEW e \in S, IsInjective(q), ~Contains(q, e)
    PROVE  /\ Append(q, e) \in Seq(S) /\ IsInjective(Append(q, e))
           /\ \A u : Contains(Append(q, e), u) <=> Contains(q, u) \/ u = e
           /\ Len(Append(q, e)) = Len(q) + 1 /\ Len(q) \in Nat
<1> DEFINE r == Append(q, e)
<1>1. /\ r \in Seq(S) /\ Len(r) = Len(q) + 1 /\ Len(q) \in Nat
      /\ \A i \in 1..Len(q) : r[i] = q[i]
      /\ r[Len(q) + 1] = e
  OBVIOUS
<1>2. DOMAIN q = 1..Len(q) /\ DOMAIN r = 1..Len(r)
  BY <1>1, LenProperties
<1> HIDE DEF r
<1>3. \A i \in 1..Len(r) : i \in 1..Len(q) \/ i = Len(q) + 1
  BY <1>1
<1>4. IsInjective(r)
  <2> SUFFICES ASSUME NEW i \in 1..Len(r), NEW j \in 1..Len(r), r[i] = r[j] PROVE i = j
    BY <1>2 DEF IsInjective
  <2>1. CASE i \in 1..Len(q) /\ j \in 1..Len(q)
    BY <1>1, <1>2, <2>1 DEF IsInjective
  <2>2. CASE i = Len(q) + 1 \/ j = Len(q) + 1
    BY <1>1, <1>3, <2>2 DEF Contains
  <2> QED
    BY <1>3, <2>1, <2>2
<1>5. ASSUME NEW u PROVE Contains(r, u) <=> Contains(q, u) \/ u = e
  <2>1. ASSUME NEW i \in 1..Len(q) PROVE i \in 1..Len(r)
    BY <1>1
  <2>2. Len(q) + 1 \in 1..Len(r)
    BY <1>1
  <2> QED
    BY <1>1, <1>3, <2>1, <2>2 DEF Contains
<1> QED
  BY <1>1, <1>4, <1>5 DEF r

LEMMA JoinedQueues ==
    ASSUME NEW S, NEW q \in Seq(S), NEW p \in Seq(S), IsInjective(q), IsInjective(p),
           \A u : ~(Contains(q, u) /\ Contains(p, u))
    PROVE  /\ q \o p \in Seq(S) /\ IsInjective(q \o p)
           /\ \A u : Contains(q \o p, u) <=> Contains(q, u) \/ Contains(p, u)
           /\ Len(q \o p) = Len(q) + Len(p) /\ Len(q) \in Nat /\ Len(p) \in Nat
<1> DEFINE r == q \o p
<1>1. /\ r \in Seq(S) /\ Len(r) = Len(q) + Len(p) /\ Len(q) \in Nat /\ Len(p) \in Nat
      /\ \A i \in 1..Len(q) : r[i] = q[i]
      /\ \A i \in 1..Len(p) : r[Len(q) + i] = p[i]
  OBVIOUS
<1>2. DOMAIN q = 1..Len(q) /\ DOMAIN p = 1..Len(p) /\ DOMAIN r = 1..Len(r)
  BY <1>1, LenProperties
<1> HIDE DEF r
<1>3. \A i \in 1..Len(r) : i \in 1..Len(q) \/ \E k \in 1..Len(p) : i = Len(q) + k
  <2> SUFFICES ASSUME NEW i \in 1..Len(r), i \notin 1..Len(q)
               PROVE  \E k \in 1..Len(p) : i = Len(q) + k
    OBVIOUS
  <2>1. i - Len(q) \in 1..Len(p) /\ i = Len(q) + (i - Len(q))
    BY <1>1
  <2> QED
    BY <2>1
<1>4. IsInjective(r)
  <2> SUFFICES ASSUME NEW i \in 1..Len(r), NEW j \in 1..Len(r), r[i] = r[j] PROVE i = j
    BY <1>2 DEF IsInjective
  <2>1. CASE i \in 1..Len(q) /\ j \in 1..Len(q)
    BY <1>1, <1>2, <2>1 DEF IsInjective
  <2>a. ASSUME NEW k \in 1..Len(q), NEW l \in 1..Len(p) PROVE r[k] # r[Len(q) + l]
    <3>1. Contains(q, r[k]) /\ Contains(p, r[Len(q) + l])
      BY <1>1, <1>2 DEF Contains
    <3> QED
      BY <3>1
  <2>2. CASE i \in 1..Len(q) /\ j \notin 1..Len(q)
    <3>1. PICK l \in 1..Len(p) : j = Len(q) + l
      BY <1>3, <2>2
    <3> QED
      BY <2>2, <2>a, <3>1
  <2>3. CASE i \notin 1..Len(q) /\ j \in 1..Len(q)
    <3>1. PICK l \in 1..Len(p) : i = Len(q) + l
      BY <1>3, <2>3
    <3> QED
      BY <2>3, <2>a, <3>1
  <2>4. CASE i \notin 1..Len(q) /\ j \notin 1..Len(q)
    <3>1. PICK k \in 1..Len(p), l \in 1..Len(p) : i = Len(q) + k /\ j = Len(q) + l
      BY <1>3, <2>4
    <3>2. k = l
      BY <1>1, <1>2, <3>1 DEF IsInjective
    <3> QED
      BY <3>1, <3>2
  <2> QED
    BY <2>1, <2>2, <2>3, <2>4
<1>5. ASSUME NEW u PROVE Contains(r, u) <=> Contains(q, u) \/ Contains(p, u)
  <2>1. \A i \in 1..Len(q) : i \in 1..Len(r)
    BY <1>1
  <2>2. \A k \in 1..Len(p) : Len(q) + k \in 1..Len(r)
    BY <1>1
  <2> QED
    BY <1>1, <1>3, <2>1, <2>2 DEF Contains
<1> QED
  BY <1>1, <1>4, <1>5 DEF r

-----------------------------------------------------------------------------
(* Folds.  it[T] is the value for T, computed from that for T without c[T]; J[T] is *)
(* a set that this value shall be in.                                             *)

LEMMA FoldInduct ==
    ASSUME NEW S, IsFiniteSet(S), NEW c, NEW J, NEW it,
           \A T \in SUBSET S : T # {} => c[T] \in T,
           it[{}] \in J[{}],
           \A T \in SUBSET S : T # {} /\ it[T \ {c[T]}] \in J[T \ {c[T]}] => it[T] \in J[T]
    PROVE  it[S] \in J[S]
<1> DEFINE P == {n \in Nat : \A T \in SUBSET S : Cardinality(T) = n => it[T] \in J[T]}
<1>1. \A T \in SUBSET S : IsFiniteSet(T) /\ Cardinality(T) \in Nat
  BY FS_Subset, FS_CardinalityType
<1>2. 0 \in P
  <2> SUFFICES ASSUME NEW T \in SUBSET S, Cardinality(T) = 0 PROVE it[T] \in J[T]
    OBVIOUS
  <2>1. T = {}
    BY <1>1, FS_EmptySet
  <2> QED
    BY <2>1
<1>3. ASSUME NEW n \in P PROVE n + 1 \in P
  <2> SUFFICES ASSUME NEW T \in SUBSET S, Cardinality(T) = n + 1 PROVE it[T] \in J[T]
    OBVIOUS
  <2>1. n \in Nat
    OBVIOUS
  <2>2. T # {}
    <3>1. Cardinality({}) = 0
      BY FS_EmptySet
    <3>2. n + 1 # 0
      BY <2>1
    <3> QED
      BY <3>1, <3>2
  <2>3. c[T] \in T
    BY <2>2
  <2>4. Cardinality(T \ {c[T]}) = n
    BY <1>1, <2>1, <2>3, FS_RemoveElement
  <2>5. it[T \ {c[T]}] \in J[T \ {c[T]}]
    BY <2>4
  <2> QED
    BY <2>2, <2>5
<1> HIDE DEF P
<1>4. P = Nat
  <2>1. P \in SUBSET Nat
    BY DEF P
  <2> QED
    BY <1>2, <1>3, <2>1, SetInduction
<1>5. Cardinality(S) \in P
  BY <1>1, <1>4
<1> QED
  BY <1>5 DEF P

\* Each step of the fold F, from b, leads from J[T] to the set of the next T.
FoldStep(S, c, B, J, F, b) ==
    /\ \A T \in SUBSET S : T # {} => c[T] \in T
    /\ \A T \in SUBSET S : J[T] \subseteq B
    /\ b \in J[{}]
    /\ \A T \in SUBSET S : \A i \in S \ T : \A x \in J[T] : F[<<i, x>>] \in J[T \union {i}]

\* g gives the value for every T.
FoldGraph(S, c, B, F, b, g) ==
    /\ g \in [SUBSET S -> B]
    /\ \A T \in SUBSET S : g[T] = IF T = {} THEN b ELSE F[<<c[T], g[T \ {c[T]}]>>]

\* A fold over a finite set has a value for every subset.
LEMMA FoldExists ==
    ASSUME NEW S, IsFiniteSet(S), NEW c, NEW B, NEW J, NEW F, NEW b, FoldStep(S, c, B, J, F, b)
    PROVE  \E g : FoldGraph(S, c, B, F, b, g)
<1> USE DEF FoldStep
<1> DEFINE Small(n) == {T \in SUBSET S : Cardinality(T) <= n}
           Is(g, n) == \A T \in Small(n) :
             g[T] \in J[T] /\ g[T] = IF T = {} THEN b ELSE F[<<c[T], g[T \ {c[T]}]>>]
           P == {n \in Nat : \E g \in [Small(n) -> B] : Is(g, n)}
<1>1. \A T \in SUBSET S : IsFiniteSet(T) /\ Cardinality(T) \in Nat
  BY FS_Subset, FS_CardinalityType
<1>2. 0 \in P
  <2> DEFINE g == [T \in Small(0) |-> b]
  <2>1. \A T \in Small(0) : T = {}
    BY <1>1, FS_EmptySet
  <2>2. g \in [Small(0) -> B] /\ Is(g, 0)
    BY <2>1
  <2> QED
    BY <2>2
<1>3. ASSUME NEW n \in P PROVE n + 1 \in P
  <2>1. n \in Nat
    OBVIOUS
  <2>2. PICK g \in [Small(n) -> B] : Is(g, n)
    OBVIOUS
  <2> HIDE DEF P
  <2> DEFINE h == [T \in Small(n + 1) |-> IF T = {} THEN b ELSE F[<<c[T], g[T \ {c[T]}]>>]]
  <2>3. ASSUME NEW T \in Small(n + 1), T # {}
        PROVE  /\ c[T] \in T /\ T \ {c[T]} \in Small(n) /\ T \ {c[T]} \in Small(n + 1)
               /\ (T \ {c[T]}) \union {c[T]} = T
    <3>1. c[T] \in T
      BY <2>3
    <3>2. Cardinality(T \ {c[T]}) = Cardinality(T) - 1 /\ Cardinality(T) \in Nat
      BY <1>1, <3>1, FS_RemoveElement
    <3>3. Cardinality(T) <= n + 1
      OBVIOUS
    <3>4. Cardinality(T \ {c[T]}) <= n /\ Cardinality(T \ {c[T]}) <= n + 1
      BY <2>1, <3>2, <3>3
    <3> QED
      BY <3>1, <3>4
  <2>4. \A T \in Small(n) : h[T] = g[T]
    <3> SUFFICES ASSUME NEW T \in Small(n) PROVE h[T] = g[T]
      OBVIOUS
    <3>1. T \in Small(n + 1)
      BY <1>1, <2>1
    <3> QED
      BY <3>1, <2>2
  <2>5. ASSUME NEW T \in Small(n + 1)
        PROVE  h[T] \in J[T] /\ h[T] = IF T = {} THEN b ELSE F[<<c[T], h[T \ {c[T]}]>>]
    <3>1. CASE T = {}
      BY <3>1
    <3>2. CASE T # {}
      <4>1. /\ c[T] \in S \ (T \ {c[T]}) /\ T \ {c[T]} \in Small(n) /\ T \ {c[T]} \in SUBSET S
            /\ (T \ {c[T]}) \union {c[T]} = T
        BY <2>3, <3>2
      <4>2. g[T \ {c[T]}] \in J[T \ {c[T]}]
        BY <2>2, <4>1
      <4>3. F[<<c[T], g[T \ {c[T]}]>>] \in J[T]
        BY <4>1, <4>2
      <4>4. h[T] = F[<<c[T], g[T \ {c[T]}]>>] /\ h[T \ {c[T]}] = g[T \ {c[T]}]
        BY <2>4, <3>2, <4>1
      <4> QED
        BY <3>2, <4>3, <4>4
    <3> QED
      BY <3>1, <3>2
  <2> HIDE DEF h
  <2>6. h \in [Small(n + 1) -> B]
    <3>1. \A T \in Small(n + 1) : h[T] \in B
      BY <2>5
    <3> QED
      BY <3>1 DEF h
  <2>7. Is(h, n + 1)
    BY <2>5
  <2> HIDE DEF Is, Small
  <2> QED
    BY <2>1, <2>6, <2>7 DEF P
<1>4. P = Nat
  <2> HIDE DEF Is, Small
  <2>1. P \in SUBSET Nat
    OBVIOUS
  <2> HIDE DEF P
  <2> QED
    BY <1>2, <1>3, <2>1, SetInduction
<1>5. PICK g \in [Small(Cardinality(S)) -> B] : Is(g, Cardinality(S))
  BY <1>1, <1>4
<1>6. Small(Cardinality(S)) = SUBSET S
  <2>1. \A T \in SUBSET S : Cardinality(T) <= Cardinality(S)
    BY FS_Subset
  <2> QED
    BY <2>1
<1> QED
  BY <1>5, <1>6 DEF FoldGraph
=============================================================================
