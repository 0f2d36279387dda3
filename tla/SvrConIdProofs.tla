---------------------------- MODULE SvrConIdProofs --------------------------
(***************************************************************************)
(* Proofs that SvrConId is typed and that its identifiers are unique, for  *)
(* every width of the counters and every rate that the width allows.       *)
(***************************************************************************)
EXTENDS SvrConId, TLAPS

N == Len(born)

\* The next identifier takes up where the last one was.
SeedInv == N > 0 => born[N].id.seed = seed

\* Seen from now, a second of the clock is as far back as it is, or W less.
TimeInv ==
    \A i \in 1..N :
        /\ born[i].age <= age
        /\ time - born[i].id.sec \in {age - born[i].age, age - born[i].age - W}

\* At most Rate connections were made in this second, and they are the last.
SecondInv ==
    /\ first \in 1..N + 1 /\ N + 1 - first <= Rate
    /\ \A i \in 1..N : born[i].age = age => first <= i

\* Two connections of one second are fewer than W apart ...
ApartInv ==
    \A i, j \in 1..N : i <= j /\ born[i].age = born[j].age => j - i < W

\* ... and over so short a distance the counter wraps at most once.
CloseInv ==
    \A i, j \in 1..N :
        i <= j /\ j - i < W => born[j].id.seed - born[i].id.seed \in {j - i, j - i - W}

\* The inductive invariant.
IdInv == TypeOK /\ SeedInv /\ TimeInv /\ SecondInv /\ ApartInv /\ CloseInv

LEMMA Plus1Type ==
    ASSUME NEW x \in Bits32
    PROVE  Plus1(x) \in Bits32 /\ Plus1(x) - x \in {1, 1 - W}
BY WidthAssumption DEF Bits32, Plus1

\* A difference to a counter that goes on by one, modulo w, while d does.
LEMMA Onward ==
    ASSUME NEW w \in Nat, NEW a \in 0..w - 1, NEW s \in 0..w - 1, NEW t \in 0..w - 1,
           t - s \in {1, 1 - w}, NEW d \in Nat, d + 1 < w, s - a \in {d, d - w}
    PROVE  t - a \in {d + 1, d + 1 - w}
OBVIOUS

LEMMA InitIdInv == Init => IdInv
<1> SUFFICES ASSUME Init PROVE IdInv
  OBVIOUS
<1>1. N = 0
  BY DEF Init, N
<1>2. TypeOK
  BY WidthAssumption DEF Init, TypeOK, Bits32
<1>3. SecondInv
  BY <1>1, RateAssumption DEF Init, SecondInv
<1> QED
  BY <1>1, <1>2, <1>3 DEF IdInv, SeedInv, TimeInv, ApartInv, CloseInv

\* The ranges of what is recorded of a connection.
LEMMA ElementType ==
    ASSUME TypeOK
    PROVE  /\ N \in Nat /\ age \in 0..W - 1 /\ time \in 0..W - 1 /\ seed \in 0..W - 1
           /\ first \in Nat
           /\ \A i \in 1..N : /\ born[i].age \in 0..W - 1
                              /\ born[i].id.sec \in 0..W - 1
                              /\ born[i].id.seed \in 0..W - 1
<1>1. born \in Seq([age : Bits32, id : [sec : Bits32, seed : Bits32]]) /\ N \in Nat
  BY DEF TypeOK, N
<1>2. ASSUME NEW i \in 1..N
      PROVE  born[i] \in [age : Bits32, id : [sec : Bits32, seed : Bits32]]
  <2> DEFINE E == [age : Bits32, id : [sec : Bits32, seed : Bits32]]
  <2>1. born \in Seq(E)
    BY <1>1
  <2> HIDE DEF E
  <2>2. born[i] \in E
    BY <2>1 DEF N
  <2> QED
    BY <2>2 DEF E
<1>3. ASSUME NEW i \in 1..N
      PROVE  born[i].age \in Bits32 /\ born[i].id.sec \in Bits32 /\ born[i].id.seed \in Bits32
  BY <1>2
<1> QED
  BY <1>1, <1>3 DEF TypeOK, Bits32

\* What a new connection does to the record of connections.
LEMMA Appended ==
    ASSUME TypeOK, NewSvrCon
    PROVE  /\ N \in Nat /\ N' = N + 1
           /\ \A i \in 1..N : born'[i] = born[i]
           /\ born'[N + 1].age = age
           /\ born'[N + 1].id.sec = time /\ born'[N + 1].id.seed = seed'
           /\ seed' \in Bits32 /\ seed' - seed \in {1, 1 - W}
<1>1. seed' \in Bits32 /\ seed' - seed \in {1, 1 - W}
  BY Plus1Type DEF TypeOK, NewSvrCon
<1> DEFINE c == [age |-> age, id |-> Id(time, seed')]
<1>2. born \in Seq([age : Bits32, id : [sec : Bits32, seed : Bits32]]) /\ born' = Append(born, c)
  BY DEF TypeOK, NewSvrCon
<1>3. c.age = age /\ c.id.sec = time /\ c.id.seed = seed'
  BY DEF Id
<1> HIDE DEF c
<1>4. N \in Nat /\ N' = N + 1 /\ born'[N + 1] = c
  BY <1>2 DEF N
<1>5. \A i \in 1..N : born'[i] = born[i]
  BY <1>2 DEF N
<1> QED
  BY <1>1, <1>3, <1>4, <1>5

LEMMA NewTypeOK == TypeOK /\ NewSvrCon => TypeOK'
<1> SUFFICES ASSUME TypeOK, NewSvrCon PROVE TypeOK'
  OBVIOUS
<1>1. seed' \in Bits32
  BY Appended
<1>2. [age |-> age, id |-> Id(time, seed')] \in [age : Bits32, id : [sec : Bits32, seed : Bits32]]
  BY <1>1 DEF TypeOK, Id
<1>3. born' \in Seq([age : Bits32, id : [sec : Bits32, seed : Bits32]])
  BY <1>2 DEF TypeOK, NewSvrCon
<1> QED
  BY <1>1, <1>3 DEF TypeOK, NewSvrCon

LEMMA NewIdInv == IdInv /\ NewSvrCon => IdInv'
<1> SUFFICES ASSUME IdInv, NewSvrCon PROVE IdInv'
  OBVIOUS
<1> USE DEF IdInv
<1>0. W \in Nat \ {0} /\ Rate \in Nat /\ Rate <= W
  BY WidthAssumption, RateAssumption
<1>1. TypeOK'
  BY NewTypeOK
<1>2. /\ N \in Nat /\ N' = N + 1
      /\ \A i \in 1..N : born'[i] = born[i]
      /\ born'[N + 1].age = age
      /\ born'[N + 1].id.sec = time /\ born'[N + 1].id.seed = seed'
      /\ seed' \in Bits32 /\ seed' - seed \in {1, 1 - W}
  BY Appended
<1>3. time' = time /\ age' = age /\ first' = first /\ N + 1 - first < Rate
  BY DEF NewSvrCon, N
<1>4. /\ age \in 0..W - 1 /\ time \in 0..W - 1 /\ seed \in 0..W - 1 /\ seed' \in 0..W - 1
      /\ first \in Nat
      /\ \A i \in 1..N : /\ born[i].age \in 0..W - 1
                         /\ born[i].id.sec \in 0..W - 1
                         /\ born[i].id.seed \in 0..W - 1
  BY <1>2, ElementType DEF Bits32
<1>5. SeedInv'
  BY <1>2 DEF SeedInv
<1>6. TimeInv'
  <2> SUFFICES ASSUME NEW i \in 1..N + 1
               PROVE  /\ born'[i].age <= age
                      /\ time - born'[i].id.sec
                            \in {age - born'[i].age, age - born'[i].age - W}
    BY <1>2, <1>3 DEF TimeInv
  <2>1. CASE i = N + 1
    BY <2>1, <1>0, <1>2, <1>4
  <2>2. CASE i \in 1..N
    BY <2>2, <1>2 DEF TimeInv
  <2> QED
    BY <2>1, <2>2, <1>2
<1>7. SecondInv'
  <2>1. first' \in 1..N' + 1 /\ N' + 1 - first' <= Rate
    BY <1>0, <1>2, <1>3, <1>4 DEF SecondInv
  <2>2. ASSUME NEW i \in 1..N + 1, born'[i].age = age PROVE first <= i
    <3>1. CASE i = N + 1
      BY <3>1, <1>2, <1>4 DEF SecondInv
    <3>2. CASE i \in 1..N
      BY <3>2, <2>2, <1>2 DEF SecondInv
    <3> QED
      BY <3>1, <3>2, <1>2
  <2> QED
    BY <2>1, <2>2, <1>2, <1>3 DEF SecondInv
<1>8. ApartInv'
  <2> SUFFICES ASSUME NEW i \in 1..N + 1, NEW j \in 1..N + 1, i <= j,
                      born'[i].age = born'[j].age
               PROVE  j - i < W
    BY <1>2 DEF ApartInv
  <2>1. CASE j = N + 1 /\ i \in 1..N
    <3>1. first <= i
      BY <2>1, <1>2 DEF SecondInv
    <3> QED
      BY <3>1, <2>1, <1>0, <1>2, <1>3, <1>4
  <2>2. CASE j = N + 1 /\ i = N + 1
    BY <2>2, <1>0, <1>2
  <2>3. CASE j \in 1..N
    BY <2>3, <1>2 DEF ApartInv
  <2> QED
    BY <2>1, <2>2, <2>3, <1>2
<1>9. CloseInv'
  <2> SUFFICES ASSUME NEW i \in 1..N + 1, NEW j \in 1..N + 1, i <= j, j - i < W
               PROVE  born'[j].id.seed - born'[i].id.seed \in {j - i, j - i - W}
    BY <1>2 DEF CloseInv
  <2>1. CASE j = N + 1 /\ i \in 1..N
    <3>1. seed = born[N].id.seed
      BY <2>1, <1>2 DEF SeedInv
    <3>2. N \in 1..N /\ i \in Nat /\ i <= N /\ N + 1 - i < W /\ N - i < W
      BY <2>1, <1>0, <1>2
    <3>3. seed - born[i].id.seed \in {N - i, N - i - W}
      BY <2>1, <3>1, <3>2 DEF CloseInv
    <3>4. born[i].id.seed \in 0..W - 1
      BY <2>1, <1>4
    <3>5. N - i \in Nat /\ (N - i) + 1 < W
      BY <3>2, <1>2
    <3>6. seed' - born[i].id.seed \in {(N - i) + 1, (N - i) + 1 - W}
      BY <3>3, <3>4, <3>5, <1>0, <1>2, <1>4, Onward
    <3>7. {(N - i) + 1, (N - i) + 1 - W} = {j - i, j - i - W}
      BY <2>1, <1>0, <1>2
    <3>8. born'[j].id.seed = seed' /\ born'[i] = born[i]
      BY <2>1, <1>2
    <3> QED
      BY <3>6, <3>7, <3>8
  <2>2. CASE i = j
    <3>1. born'[j].id.seed \in 0..W - 1
      <4>1. CASE j = N + 1
        BY <4>1, <1>2, <1>4
      <4>2. CASE j \in 1..N
        BY <4>2, <1>2, <1>4
      <4> QED
        BY <4>1, <4>2, <1>2
    <3>2. born'[j].id.seed - born'[j].id.seed = 0
      BY <3>1
    <3>3. j - i = 0
      BY <2>2, <1>2
    <3> QED
      BY <3>2, <3>3, <2>2
  <2>3. CASE j \in 1..N
    BY <2>3, <1>2 DEF CloseInv
  <2> QED
    BY <2>1, <2>2, <2>3, <1>2
<1> QED
  BY <1>1, <1>5, <1>6, <1>7, <1>8, <1>9

LEMMA TickIdInv == IdInv /\ Tick => IdInv'
<1> SUFFICES ASSUME IdInv, Tick PROVE IdInv'
  OBVIOUS
<1> USE DEF IdInv
<1>0. W \in Nat \ {0} /\ Rate \in Nat /\ Rate <= W
  BY WidthAssumption, RateAssumption
<1>1. /\ age < W - 1 /\ age' = age + 1 /\ first' = N + 1 /\ N \in Nat
      /\ seed' = seed /\ born' = born /\ N' = N
      /\ time' \in Bits32 /\ time' - time \in {1, 1 - W}
  BY Plus1Type DEF Tick, N, TypeOK
<1>2. TypeOK'
  BY <1>0, <1>1 DEF TypeOK, Bits32
<1>3. /\ age \in 0..W - 1 /\ time \in 0..W - 1 /\ time' \in 0..W - 1
      /\ \A i \in 1..N : born[i].age \in 0..W - 1 /\ born[i].id.sec \in 0..W - 1
  BY <1>1, ElementType DEF Bits32
<1>4. SeedInv' /\ ApartInv' /\ CloseInv'
  BY <1>1 DEF SeedInv, ApartInv, CloseInv
<1>5. ASSUME NEW i \in 1..N
      PROVE  /\ born[i].age < age'
             /\ time' - born[i].id.sec \in {age' - born[i].age, age' - born[i].age - W}
  <2>1. born[i].age <= age
    BY DEF TimeInv
  <2>2. time - born[i].id.sec \in {age - born[i].age, age - born[i].age - W}
    BY DEF TimeInv
  <2>3. born[i].age \in 0..W - 1 /\ born[i].id.sec \in 0..W - 1
    BY <1>3
  <2>4. age - born[i].age \in Nat /\ (age - born[i].age) + 1 < W
    BY <2>1, <2>3, <1>0, <1>1, <1>3
  <2>5. time' - born[i].id.sec \in {(age - born[i].age) + 1, (age - born[i].age) + 1 - W}
    BY <2>2, <2>3, <2>4, <1>0, <1>1, <1>3, Onward
  <2>6. /\ {(age - born[i].age) + 1, (age - born[i].age) + 1 - W}
              = {age' - born[i].age, age' - born[i].age - W}
        /\ born[i].age < age'
    BY <2>1, <2>3, <1>0, <1>1, <1>3
  <2> QED
    BY <2>5, <2>6
<1>6. TimeInv'
  <2>1. ASSUME NEW i \in 1..N PROVE born[i].age <= age'
    BY <1>5, <1>1, <1>3
  <2> QED
    BY <1>1, <1>5, <2>1 DEF TimeInv
<1>7. SecondInv'
  <2>1. ASSUME NEW i \in 1..N PROVE born[i].age # age'
    BY <1>5, <1>1, <1>3
  <2> QED
    BY <1>0, <1>1, <2>1 DEF SecondInv
<1> QED
  BY <1>2, <1>4, <1>6, <1>7

LEMMA IdInvariant == Spec => []IdInv
<1>1. IdInv /\ [Next]_vars => IdInv'
  <2> SUFFICES ASSUME IdInv, [Next]_vars PROVE IdInv'
    OBVIOUS
  <2>1. CASE NewSvrCon
    BY <2>1, NewIdInv
  <2>2. CASE Tick
    BY <2>2, TickIdInv
  <2>3. CASE UNCHANGED vars
    BY <2>3 DEF vars, IdInv, TypeOK, SeedInv, TimeInv, SecondInv, ApartInv, CloseInv, N
  <2> QED
    BY <2>1, <2>2, <2>3 DEF Next
<1> QED
  BY InitIdInv, <1>1, PTL DEF Spec

\* Equal halves of the clock mean the same second, two connections of one second
\* are fewer than W apart, and fewer than W apart the counter never repeats.
LEMMA OrderedUnique ==
    ASSUME IdInv, NEW i \in 1..N, NEW j \in 1..N, i <= j, born[i].id = born[j].id
    PROVE  i = j
<1> USE DEF IdInv
<1>0. W \in Nat \ {0} /\ N \in Nat
  BY WidthAssumption DEF TypeOK, N
<1>1. \A k \in 1..N : /\ born[k].age \in 0..W - 1
                      /\ born[k].id.sec \in 0..W - 1 /\ born[k].id.seed \in 0..W - 1
  BY ElementType
<1>2. age \in 0..W - 1 /\ time \in 0..W - 1
  BY ElementType
<1>3. born[i].age = born[j].age
  <2>1. /\ time - born[i].id.sec \in {age - born[i].age, age - born[i].age - W}
        /\ time - born[i].id.sec \in {age - born[j].age, age - born[j].age - W}
    BY DEF TimeInv
  <2>2. born[i].age \in 0..W - 1 /\ born[j].age \in 0..W - 1 /\ born[i].id.sec \in 0..W - 1
    BY <1>1
  <2> QED
    BY <2>1, <2>2, <1>0, <1>2
<1>4. j - i < W
  BY <1>3 DEF ApartInv
<1>5. born[j].id.seed - born[i].id.seed \in {j - i, j - i - W}
  BY <1>4 DEF CloseInv
<1>6. born[j].id.seed - born[i].id.seed = 0
  BY <1>1
<1> QED
  BY <1>0, <1>4, <1>5, <1>6

LEMMA IdInvUnique == IdInv => IdsUnique
<1> SUFFICES ASSUME IdInv, NEW i \in 1..N, NEW j \in 1..N, born[i].id = born[j].id
             PROVE  i = j
  BY DEF IdsUnique, N
<1>1. i <= j \/ j <= i
  BY DEF IdInv, TypeOK, N
<1> QED
  BY <1>1, OrderedUnique

\* The identifiers' halves and the counters stay 32 bits wide.
THEOREM TypeCorrect == Spec => []TypeOK
BY IdInvariant, PTL DEF IdInv

\* No two connections of a process ever have the same identifier, however long
\* the counter has been wrapping, as long as the claims of the comment hold.
THEOREM UniqueCorrect == Spec => []IdsUnique
BY IdInvariant, IdInvUnique, PTL
=============================================================================
