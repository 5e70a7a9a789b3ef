----------------------------- MODULE WireProofs -----------------------------
(***************************************************************************)
(* Messages on the wire, for every set of strings and ports: a varint is read*)
(* back, a record is taken from the front of any bytes, ByteSizeLong is the  *)
(* length of the bytes, and a frame is read exactly when it is whole.        *)
(***************************************************************************)
EXTENDS Wire, SequenceTheorems, WellFoundedInduction, TLAPS

-----------------------------------------------------------------------------
(* Recursion. The library's induction theorems take an operator, which the *)
(* provers cannot instantiate; its well-founded order on numbers gives a   *)
(* least element instead, and a recursion is put as a function from an     *)
(* argument and a candidate to a value.                                    *)

\* Every set of numbers that is not empty has a least one. Applied to the set of
\* the numbers for which a fact fails, it is induction.
LEMMA Least == ASSUME NEW T \in SUBSET Nat, T # {} PROVE \E x \in T : \A y \in T : x <= y
<1>1. IsWellFoundedOn(OpToRel(<, Nat), Nat)
  BY Zenon, NatLessThanWellFounded
<1> DEFINE R == OpToRel(<, Nat)
<1>2. \E x \in T : \A y \in T : <<y, x>> \notin R
  <2> HIDE DEF R
  <2> QED BY Zenon, <1>1, WFMin DEF R
<1>3. \A x, y \in Nat : <<y, x>> \notin R => x <= y
  BY DEF OpToRel
<1> QED BY Zenon, <1>2, <1>3

\* D gives the value of a function at x from its values at elements of lower rank.
Defines(D, S, V, rank) ==
    /\ V # {}
    /\ rank \in [S -> Nat]
    /\ D \in [S -> [[S -> V] -> V]]
    /\ \A x \in S : \A g, h \in [S -> V] :
          (\A y \in S : rank[y] < rank[x] => g[y] = h[y]) => D[x][g] = D[x][h]

\* f satisfies the recursion below rank n.
Upto(f, n, D, S, V, rank) == f \in [S -> V] /\ \A x \in S : rank[x] < n => f[x] = D[x][f]

\* A recursion that goes down in rank defines a function below every rank.
LEMMA UptoExists ==
    ASSUME NEW S, NEW V, NEW rank, NEW D, Defines(D, S, V, rank)
    PROVE  \A n \in Nat : \E f \in [S -> V] : Upto(f, n, D, S, V, rank)
<1> DEFINE Bad == {n \in Nat : ~ \E f \in [S -> V] : Upto(f, n, D, S, V, rank)}
<1>1. SUFFICES ASSUME Bad # {} PROVE FALSE
  OBVIOUS
<1>2. PICK n \in Bad : \A m \in Bad : n <= m
  BY Zenon, <1>1, Least
<1>3. n # 0
  <2>1. PICK v \in V : TRUE
    BY DEF Defines
  <2>2. [x \in S |-> v] \in [S -> V]
    OBVIOUS
  <2>3. \A x \in S : ~ rank[x] < 0
    BY DEF Defines
  <2> QED BY Zenon, <2>2, <2>3 DEF Upto
<1>4. n - 1 \in Nat /\ n - 1 \notin Bad
  BY <1>2, <1>3
<1>5. PICK f \in [S -> V] : Upto(f, n - 1, D, S, V, rank)
  BY <1>4
<1> DEFINE g == [x \in S |-> IF rank[x] < n - 1 THEN f[x] ELSE D[x][f]]
<1>6. g \in [S -> V]
  BY DEF Defines
<1>7. ASSUME NEW x \in S, rank[x] < n PROVE g[x] = D[x][g]
  <2>1. \A y \in S : rank[y] < rank[x] => f[y] = g[y]
    <3> SUFFICES ASSUME NEW y \in S, rank[y] < rank[x] PROVE rank[y] < n - 1
      OBVIOUS
    <3>1. rank[x] \in Nat /\ rank[y] \in Nat /\ n \in Nat
      BY DEF Defines
    <3> QED BY <3>1, <1>7
  <2>2. D[x][f] = D[x][g]
    <3> HIDE DEF g
    <3> QED BY Zenon, <2>1, <1>6 DEF Defines
  <2>3. g[x] = D[x][f]
    BY <1>5 DEF Upto
  <2> QED BY <2>2, <2>3
<1>8. Upto(g, n, D, S, V, rank)
  <2> HIDE DEF g
  <2> QED BY <1>6, <1>7 DEF Upto
<1> HIDE DEF g
<1> QED BY <1>2, <1>6, <1>8

\* Two such functions agree below their ranks.
LEMMA UptoAgree ==
    ASSUME NEW S, NEW V, NEW rank, NEW D, Defines(D, S, V, rank),
           NEW n \in Nat, NEW m \in Nat, NEW f, NEW g,
           Upto(f, n, D, S, V, rank), Upto(g, m, D, S, V, rank)
    PROVE  \A x \in S : rank[x] < n /\ rank[x] < m => f[x] = g[x]
<1> DEFINE Differ == {x \in S : rank[x] < n /\ rank[x] < m /\ f[x] # g[x]}
           Ranks == {rank[x] : x \in Differ}
<1>1. SUFFICES ASSUME Differ # {} PROVE FALSE
  OBVIOUS
<1>2. Ranks \in SUBSET Nat /\ Ranks # {}
  <2>1. \A x \in Differ : rank[x] \in Nat
    BY DEF Defines
  <2> HIDE DEF Differ
  <2> QED BY <1>1, <2>1
<1>3. PICK r \in Ranks : \A s \in Ranks : r <= s
  <2> HIDE DEF Ranks
  <2> QED BY <1>2, Least
<1>4. PICK x \in Differ : r = rank[x]
  OBVIOUS
<1>5. \A y \in S : rank[y] < rank[x] => f[y] = g[y]
  <2> SUFFICES ASSUME NEW y \in S, rank[y] < rank[x], f[y] # g[y] PROVE FALSE
    OBVIOUS
  <2>1. rank[y] \in Nat /\ rank[x] \in Nat
    BY DEF Defines
  <2>2. rank[y] < n /\ rank[y] < m
    BY <2>1, <1>4
  <2>3. rank[y] \in Ranks
    BY <2>2
  <2> QED BY <2>1, <2>3, <1>3, <1>4
<1>6. D[x][f] = D[x][g]
  BY Zenon, <1>5 DEF Defines, Upto
<1> QED BY <1>4, <1>6 DEF Upto

Solved(D, S, V) == \E f \in [S -> V] : \A x \in S : f[x] = D[x][f]

\* A recursion that goes down in rank defines a function.
LEMMA Recursion ==
    ASSUME NEW S, NEW V, NEW rank, NEW D, Defines(D, S, V, rank)
    PROVE  Solved(D, S, V)
<1> DEFINE U(f, n) == Upto(f, n, D, S, V, rank)
           F(n) == CHOOSE f \in [S -> V] : U(f, n)
           f == [x \in S |-> F(rank[x] + 1)[x]]
<1>1. \A n \in Nat : F(n) \in [S -> V] /\ U(F(n), n)
  <2> HIDE DEF U
  <2>1. \A n \in Nat : \E h \in [S -> V] : U(h, n)
    BY UptoExists DEF U
  <2> QED BY <2>1
<1>2. \A x \in S : rank[x] \in Nat
  BY DEF Defines
<1>3. f \in [S -> V]
  <2> HIDE DEF F
  <2> QED BY <1>1, <1>2
<1>4. ASSUME NEW x \in S PROVE f[x] = D[x][f]
  <2>1. ASSUME NEW y \in S, rank[y] < rank[x] PROVE f[y] = F(rank[x] + 1)[y]
    <3>1. rank[y] + 1 \in Nat /\ rank[x] + 1 \in Nat /\ rank[y] < rank[y] + 1 /\ rank[y] < rank[x] + 1
      BY <1>2, <2>1
    <3>2. F(rank[y] + 1)[y] = F(rank[x] + 1)[y]
      <4> HIDE DEF F
      <4> QED BY <3>1, <1>1, UptoAgree
    <3> QED BY <3>2
  <2>2. F(rank[x] + 1) \in [S -> V]
    BY <1>1, <1>2
  <2>3. D[x][f] = D[x][F(rank[x] + 1)]
    <3> HIDE DEF f, F
    <3> QED BY Zenon, <1>3, <2>1, <2>2 DEF Defines
  <2>4. F(rank[x] + 1)[x] = D[x][F(rank[x] + 1)]
    <3>1. rank[x] + 1 \in Nat /\ rank[x] < rank[x] + 1
      BY <1>2
    <3>2. U(F(rank[x] + 1), rank[x] + 1)
      BY <1>1, <3>1
    <3> HIDE DEF F
    <3> QED BY <3>1, <3>2 DEF Upto
  <2>5. f[x] = F(rank[x] + 1)[x]
    <3> HIDE DEF F
    <3> QED OBVIOUS
  <2> HIDE DEF f, F
  <2> QED BY <2>3, <2>4, <2>5
<1> HIDE DEF f
<1> QED BY <1>3, <1>4 DEF Solved

-----------------------------------------------------------------------------
(* Varints.                                                                *)

\* What lies between a number and its continuation in a varint.
LEMMA Seventh == ASSUME NEW n \in Nat, n >= 128
                 PROVE  n \div 128 \in Nat /\ n \div 128 < n /\ n % 128 \in Nat /\ n % 128 < 128
                        /\ n = 128 * (n \div 128) + (n % 128)
  OBVIOUS

\* The recursion of VarintBytes.
LEMMA VarintBytesDef ==
    VarintBytes = [n \in Nat |-> IF n < 128 THEN <<n>>
                                 ELSE <<128 + (n % 128)>> \o VarintBytes[n \div 128]]
<1> DEFINE V == Seq(Nat)
           D == [n \in Nat |-> [g \in [Nat -> V] |->
                   IF n < 128 THEN <<n>> ELSE <<128 + (n % 128)>> \o g[n \div 128]]]
           rank == [n \in Nat |-> n]
<1>1. D \in [Nat -> [[Nat -> V] -> V]]
  <2> SUFFICES ASSUME NEW n \in Nat, NEW g \in [Nat -> V]
               PROVE  (IF n < 128 THEN <<n>> ELSE <<128 + (n % 128)>> \o g[n \div 128]) \in V
    OBVIOUS
  <2>1. CASE n < 128
    BY <2>1
  <2>2. CASE n >= 128
    <3>1. g[n \div 128] \in Seq(Nat)
      BY <2>2, Seventh
    <3>2. <<128 + (n % 128)>> \in Seq(Nat)
      BY <2>2, Seventh
    <3> QED BY <2>2, <3>1, <3>2, ConcatProperties
  <2> QED BY <2>1, <2>2
<1>2. ASSUME NEW n \in Nat, NEW g \in [Nat -> V], NEW h \in [Nat -> V],
             \A m \in Nat : rank[m] < rank[n] => g[m] = h[m]
      PROVE  D[n][g] = D[n][h]
  <2> HIDE DEF V
  <2>1. n >= 128 => g[n \div 128] = h[n \div 128]
    BY <1>2, Seventh
  <2> QED BY <2>1
<1>3. \E f \in [Nat -> V] : \A n \in Nat : f[n] = D[n][f]
  <2>1. V # {}
    BY Zenon, EmptySeq
  <2>2. rank \in [Nat -> Nat]
    OBVIOUS
  <2>3. Defines(D, Nat, V, rank)
    <3> HIDE DEF D, V, rank
    <3> QED BY Zenon, <1>1, <1>2, <2>1, <2>2 DEF Defines
  <2>4. Solved(D, Nat, V)
    <3> HIDE DEF D, V, rank
    <3> QED BY <2>3, Recursion
  <2> HIDE DEF D, V, rank
  <2> QED BY <2>4 DEF Solved
<1>4. PICK f \in [Nat -> V] : \A n \in Nat : f[n] = D[n][f]
  BY Zenon, <1>3
<1>5. f = [n \in Nat |-> IF n < 128 THEN <<n>> ELSE <<128 + (n % 128)>> \o f[n \div 128]]
  <2> HIDE DEF V
  <2> QED BY ZenonT(40), <1>4
<1> QED BY <1>5, Zenon DEF VarintBytes

\* The recursion of VarintSize.
LEMMA VarintSizeDef ==
    VarintSize = [n \in Nat |-> IF n < 128 THEN 1 ELSE 1 + VarintSize[n \div 128]]
<1> DEFINE D == [n \in Nat |-> [g \in [Nat -> Nat] |-> IF n < 128 THEN 1 ELSE 1 + g[n \div 128]]]
           rank == [n \in Nat |-> n]
<1>1. D \in [Nat -> [[Nat -> Nat] -> Nat]]
  BY Seventh
<1>2. ASSUME NEW n \in Nat, NEW g \in [Nat -> Nat], NEW h \in [Nat -> Nat],
             \A m \in Nat : rank[m] < rank[n] => g[m] = h[m]
      PROVE  D[n][g] = D[n][h]
  <2>1. n >= 128 => g[n \div 128] = h[n \div 128]
    BY <1>2, Seventh
  <2> QED BY <2>1
<1>3. Solved(D, Nat, Nat)
  <2>1. rank \in [Nat -> Nat] /\ Nat # {}
    OBVIOUS
  <2> HIDE DEF D, rank
  <2>2. Defines(D, Nat, Nat, rank)
    BY Zenon, <1>1, <1>2, <2>1 DEF Defines
  <2> QED BY <2>2, Recursion
<1>4. PICK f \in [Nat -> Nat] : \A n \in Nat : f[n] = D[n][f]
  <2> HIDE DEF D
  <2> QED BY <1>3 DEF Solved
<1>5. f = [n \in Nat |-> IF n < 128 THEN 1 ELSE 1 + f[n \div 128]]
  BY <1>4
<1> QED BY <1>5, Zenon DEF VarintSize

\* Both recursions, one number at a time.
LEMMA VarintStep ==
    ASSUME NEW n \in Nat
    PROVE  /\ n < 128 => VarintBytes[n] = <<n>> /\ VarintSize[n] = 1
           /\ n >= 128 => /\ VarintBytes[n] = <<128 + (n % 128)>> \o VarintBytes[n \div 128]
                          /\ VarintSize[n] = 1 + VarintSize[n \div 128]
<1> DEFINE B(m) == IF m < 128 THEN <<m>> ELSE <<128 + (m % 128)>> \o VarintBytes[m \div 128]
           S(m) == IF m < 128 THEN 1 ELSE 1 + VarintSize[m \div 128]
<1>1. VarintBytes = [m \in Nat |-> B(m)] /\ VarintSize = [m \in Nat |-> S(m)]
  BY Zenon, VarintBytesDef, VarintSizeDef
<1>2. VarintBytes[n] = B(n) /\ VarintSize[n] = S(n)
  <2> HIDE DEF B, S
  <2> QED BY <1>1
<1>3. n >= 128 => ~(n < 128)
  OBVIOUS
<1> QED BY <1>2, <1>3, Zenon

\* A varint takes at least one byte, exactly VarintSize, and not many more than one.
VarintFacts(n) ==
    /\ VarintBytes[n] \in Seq(Nat)
    /\ VarintSize[n] \in Nat
    /\ Len(VarintBytes[n]) = VarintSize[n]
    /\ 1 <= VarintSize[n] /\ VarintSize[n] <= 1 + (n \div 128)

\* How a varint is written, for every number.
LEMMA Varints == \A n \in Nat : VarintFacts(n)
<1> DEFINE Bad == {n \in Nat : ~ VarintFacts(n)}
<1>1. SUFFICES ASSUME Bad # {} PROVE FALSE
  OBVIOUS
<1>2. PICK n \in Bad : \A m \in Bad : n <= m
  BY Zenon, <1>1, Least
<1> USE DEF VarintFacts
<1>3. CASE n < 128
  <2>1. VarintBytes[n] = <<n>> /\ VarintSize[n] = 1
    BY Zenon, <1>3, VarintStep
  <2>2. <<n>> \in Seq(Nat) /\ Len(<<n>>) = 1
    OBVIOUS
  <2>3. 1 <= 1 + (n \div 128)
    OBVIOUS
  <2>4. VarintFacts(n)
    BY <2>1, <2>2, <2>3
  <2> HIDE DEF VarintFacts
  <2> QED BY <2>4
<1>4. CASE n >= 128
  <2> DEFINE m == n \div 128
             b == 128 + (n % 128)
  <2>1. m \in Nat /\ m < n /\ m >= 1 /\ b \in Nat
    BY <1>4, Seventh
  <2>2. VarintFacts(m)
    <3> HIDE DEF VarintFacts
    <3> QED BY <1>2, <2>1
  <2>3. VarintBytes[n] = <<b>> \o VarintBytes[m] /\ VarintSize[n] = 1 + VarintSize[m]
    BY Zenon, <1>4, VarintStep
  <2>4. <<b>> \in Seq(Nat) /\ Len(<<b>>) = 1
    BY <2>1
  <2>5. <<b>> \o VarintBytes[m] \in Seq(Nat) /\ Len(<<b>> \o VarintBytes[m]) = 1 + VarintSize[m]
    <3> HIDE DEF b, m
    <3> QED BY <2>2, <2>4, ConcatProperties
  <2>6. 1 + (m \div 128) <= m
    BY <2>1
  <2>7. VarintSize[n] <= 1 + m /\ 1 <= VarintSize[n] /\ VarintSize[n] \in Nat
    <3> HIDE DEF m
    <3> QED BY SMTT(40), <2>1, <2>2, <2>3, <2>6
  <2>8. VarintFacts(n)
    BY <2>3, <2>5, <2>7
  <2> HIDE DEF VarintFacts
  <2> QED BY <2>8
<1> QED BY <1>3, <1>4

Read == [number : Nat, length : Nat]

\* What Varint does at bytes, given what it does at shorter ones.
VarintBody(g, bytes) ==
    IF bytes = <<>> THEN [number |-> 0, length |-> 0]
    ELSE IF Head(bytes) < 128 THEN [number |-> Head(bytes), length |-> 1]
    ELSE [number |-> (Head(bytes) % 128) + 128 * g[Tail(bytes)].number,
          length |-> 1 + g[Tail(bytes)].length]

\* Head and tail of bytes that are there.
LEMMA HeadAndTail ==
    ASSUME NEW S, NEW bytes \in Seq(S), bytes # <<>>
    PROVE  /\ Head(bytes) \in S /\ Tail(bytes) \in Seq(S)
           /\ Len(Tail(bytes)) = Len(bytes) - 1 /\ Len(bytes) \in Nat /\ Len(bytes) >= 1
  BY HeadTailProperties, EmptySeq

\* The value is a number and a length.
LEMMA VarintBodyType ==
    ASSUME NEW g \in [Seq(Nat) -> Read], NEW bytes \in Seq(Nat) PROVE VarintBody(g, bytes) \in Read
<1>1. CASE bytes = <<>>
  BY <1>1 DEF VarintBody, Read
<1>2. CASE bytes # <<>>
  <2>1. Head(bytes) \in Nat /\ Tail(bytes) \in Seq(Nat)
    BY <1>2, HeadAndTail
  <2>2. g[Tail(bytes)] \in Read
    BY Zenon, <2>1
  <2>3. g[Tail(bytes)].number \in Nat /\ g[Tail(bytes)].length \in Nat
    BY <2>2 DEF Read
  <2>4. (Head(bytes) % 128) + 128 * g[Tail(bytes)].number \in Nat
    BY <2>1, <2>3
  <2>5. 1 + g[Tail(bytes)].length \in Nat
    BY <2>3
  <2> QED BY <1>2, <2>1, <2>4, <2>5 DEF VarintBody, Read
<1> QED BY <1>1, <1>2

\* The recursion of Varint.
LEMMA VarintDef == Varint = [bytes \in Seq(Nat) |-> VarintBody(Varint, bytes)]
<1> DEFINE S == Seq(Nat)
           D == [b \in S |-> [g \in [S -> Read] |-> VarintBody(g, b)]]
           rank == [b \in S |-> Len(b)]
<1>1. D \in [S -> [[S -> Read] -> Read]]
  BY VarintBodyType
<1>2. ASSUME NEW b \in S, NEW g \in [S -> Read], NEW h \in [S -> Read],
             \A c \in S : rank[c] < rank[b] => g[c] = h[c]
      PROVE  D[b][g] = D[b][h]
  <2>1. b # <<>> => g[Tail(b)] = h[Tail(b)]
    <3> SUFFICES ASSUME b # <<>> PROVE rank[Tail(b)] < rank[b] /\ Tail(b) \in S
      BY Zenon, <1>2
    <3> QED BY HeadAndTail
  <2>2. VarintBody(g, b) = VarintBody(h, b)
    BY <2>1 DEF VarintBody
  <2> QED BY <2>2
<1>3. Solved(D, S, Read)
  <2>1. rank \in [S -> Nat] /\ Read # {}
    <3>1. [number |-> 0, length |-> 0] \in Read
      BY DEF Read
    <3>2. \A b \in S : Len(b) \in Nat
      BY LenProperties
    <3> QED BY <3>1, <3>2
  <2> HIDE DEF D, rank, S
  <2>2. Defines(D, S, Read, rank)
    BY Zenon, <1>1, <1>2, <2>1 DEF Defines
  <2> QED BY <2>2, Recursion
<1>4. PICK f \in [S -> Read] : \A b \in S : f[b] = D[b][f]
  <2> HIDE DEF D, S
  <2> QED BY <1>3 DEF Solved
<1>5. f = [b \in S |-> VarintBody(f, b)]
  BY <1>4
<1>6. \E g : g = [b \in Seq(Nat) |-> VarintBody(g, b)]
  BY <1>5, Zenon
<1> QED BY <1>6, Zenon DEF Varint, VarintBody

\* One step of it.
LEMMA VarintAt == ASSUME NEW bytes \in Seq(Nat) PROVE Varint[bytes] = VarintBody(Varint, bytes)
<1> HIDE DEF VarintBody
<1> QED BY VarintDef

\* A varint takes some of the bytes there are, and one at least.
ReadFacts(b) ==
    /\ Varint[b] \in Read
    /\ Varint[b].length <= Len(b)
    /\ b # <<>> => Varint[b].length >= 1

\* A varint is read from the front of any bytes, and no further than they go.
LEMMA VarintTaken == \A b \in Seq(Nat) : ReadFacts(b)
<1> DEFINE Bad == {b \in Seq(Nat) : ~ ReadFacts(b)}
           Lengths == {Len(b) : b \in Bad}
<1>1. SUFFICES ASSUME Bad # {} PROVE FALSE
  OBVIOUS
<1>2. Lengths \in SUBSET Nat /\ Lengths # {}
  <2>1. \A b \in Bad : Len(b) \in Nat
    BY LenProperties
  <2> HIDE DEF Bad
  <2> QED BY Zenon, <1>1, <2>1
<1>3. PICK n \in Lengths : \A m \in Lengths : n <= m
  <2> HIDE DEF Lengths
  <2> QED BY <1>2, Least
<1>4. PICK b \in Bad : Len(b) = n
  OBVIOUS
<1>5. Varint[b] = VarintBody(Varint, b)
  BY VarintAt
<1>6. CASE b = <<>>
  <2>1. Varint[b] = [number |-> 0, length |-> 0] /\ Len(b) = 0
    BY <1>5, <1>6 DEF VarintBody
  <2>2. ReadFacts(b)
    BY <1>6, <2>1 DEF ReadFacts, Read
  <2> QED BY <2>2
<1>7. CASE b # <<>>
  <2>1. /\ Head(b) \in Nat /\ Tail(b) \in Seq(Nat)
        /\ Len(Tail(b)) = Len(b) - 1 /\ Len(b) \in Nat /\ Len(b) >= 1
    BY <1>7, HeadAndTail, SMTT(30)
  <2>2. ReadFacts(Tail(b))
    <3>1. Len(Tail(b)) \notin Lengths
      <4> HIDE DEF Lengths, Bad
      <4> QED BY <1>3, <1>4, <2>1
    <3> QED BY Zenon, <2>1, <3>1
  <2>3. /\ Varint[Tail(b)].number \in Nat /\ Varint[Tail(b)].length \in Nat
        /\ Varint[Tail(b)].length <= Len(b) - 1
    BY <2>1, <2>2 DEF ReadFacts, Read
  <2>4. CASE Head(b) < 128
    <3>1. Varint[b] = [number |-> Head(b), length |-> 1]
      BY <1>5, <1>7, <2>4 DEF VarintBody
    <3>2. ReadFacts(b)
      BY <2>1, <3>1 DEF ReadFacts, Read
    <3> QED BY <3>2
  <2>5. CASE ~(Head(b) < 128)
    <3> DEFINE number == (Head(b) % 128) + 128 * Varint[Tail(b)].number
               length == 1 + Varint[Tail(b)].length
    <3>1. Varint[b] = [number |-> number, length |-> length]
      BY <1>5, <1>7, <2>5, Zenon DEF VarintBody
    <3>2. number \in Nat
      BY <2>1, <2>3, SMTT(30)
    <3>3. length \in Nat /\ length <= Len(b) /\ length >= 1
      <4>1. \A i, j \in Nat : i <= j - 1 => 1 + i \in Nat /\ 1 + i <= j /\ 1 + i >= 1
        BY ONLY SMT
      <4> QED BY ONLY Zenon, <2>1, <2>3, <4>1 DEF length
    <3>4. ReadFacts(b)
      <4> HIDE DEF number, length
      <4> QED BY <3>1, <3>2, <3>3 DEF ReadFacts, Read
    <3> QED BY <3>4
  <2> QED BY <2>4, <2>5
<1> QED BY <1>6, <1>7

\* The head and tail of a byte put in front.
LEMMA InFront ==
    ASSUME NEW S, NEW x \in S, NEW s \in Seq(S)
    PROVE  /\ <<x>> \o s \in Seq(S) /\ <<x>> \o s # <<>>
           /\ Head(<<x>> \o s) = x /\ Tail(<<x>> \o s) = s
<1>1. <<x>> \in Seq(S) /\ Len(<<x>>) = 1 /\ <<x>>[1] = x
  OBVIOUS
<1>2. /\ <<x>> \o s \in Seq(S) /\ Len(<<x>> \o s) = 1 + Len(s)
      /\ \A i \in 1..1 + Len(s) : (<<x>> \o s)[i] = IF i <= 1 THEN <<x>>[i] ELSE s[i - 1]
  BY <1>1, ConcatProperties
<1>3. Len(s) \in Nat
  BY LenProperties
<1>4. <<x>> \o s # <<>>
  BY <1>2, <1>3, EmptySeq
<1>5. Head(<<x>> \o s) = x
  BY <1>1, <1>2, <1>3, <1>4, HeadTailProperties
<1>6. Tail(<<x>> \o s) = s
  <2>1. /\ Tail(<<x>> \o s) \in Seq(S) /\ Len(Tail(<<x>> \o s)) = Len(s)
        /\ \A i \in 1..Len(s) : Tail(<<x>> \o s)[i] = (<<x>> \o s)[i + 1]
    BY <1>2, <1>3, <1>4, HeadTailProperties
  <2>2. \A i \in 1..Len(s) : Tail(<<x>> \o s)[i] = s[i]
    BY <1>2, <1>3, <2>1
  <2> QED BY <2>1, <2>2, SeqEqual
<1> QED BY <1>2, <1>4, <1>5, <1>6

\* Bytes joined in either order.
LEMMA Joined == \A r, s, t \in Seq(Nat) : (r \o s) \o t = r \o (s \o t)
<1> DEFINE S == Nat
<1> SUFFICES ASSUME NEW r \in Seq(S), NEW s \in Seq(S), NEW t \in Seq(S)
             PROVE  (r \o s) \o t = r \o (s \o t)
  OBVIOUS
<1> HIDE DEF S
<1> QED BY ConcatAssociative

\* What VarintBytes wrote in front of other bytes is read back.
ReadsBack(n) ==
    \A rest \in Seq(Nat) :
        Varint[VarintBytes[n] \o rest] = [number |-> n, length |-> VarintSize[n]]

\* Every number is read back from its varint, whatever follows.
LEMMA VarintReads == \A n \in Nat : ReadsBack(n)
<1> DEFINE Bad == {n \in Nat : ~ ReadsBack(n)}
<1>1. SUFFICES ASSUME Bad # {} PROVE FALSE
  OBVIOUS
<1>2. PICK n \in Bad : \A m \in Bad : n <= m
  BY Zenon, <1>1, Least
<1>3. SUFFICES ASSUME NEW rest \in Seq(Nat)
               PROVE  Varint[VarintBytes[n] \o rest] = [number |-> n, length |-> VarintSize[n]]
  BY <1>2 DEF ReadsBack
<1>4. CASE n < 128
  <2>1. VarintBytes[n] = <<n>> /\ VarintSize[n] = 1
    BY Zenon, <1>4, VarintStep
  <2>2. <<n>> \o rest \in Seq(Nat) /\ <<n>> \o rest # <<>> /\ Head(<<n>> \o rest) = n
    BY InFront
  <2> QED BY ZenonT(40), <1>4, <2>1, <2>2, VarintAt DEF VarintBody
<1>5. CASE n >= 128
  <2> DEFINE m == n \div 128
             b == 128 + (n % 128)
             tail == VarintBytes[m] \o rest
  <2>1. m \in Nat /\ m < n /\ b \in Nat /\ ~(b < 128) /\ b % 128 = n % 128 /\ n = 128 * m + (n % 128)
    BY <1>5, Seventh
  <2>2. VarintBytes[n] = <<b>> \o VarintBytes[m] /\ VarintSize[n] = 1 + VarintSize[m]
    BY Zenon, <1>5, VarintStep
  <2>3. Varint[tail] = [number |-> m, length |-> VarintSize[m]]
    <3>1. m \notin Bad
      <4> HIDE DEF m
      <4> QED BY <1>2, <2>1
    <3> QED BY Zenon, <2>1, <3>1 DEF ReadsBack
  <2>4. VarintBytes[m] \in Seq(Nat) /\ <<b>> \in Seq(Nat)
    BY <2>1, Varints DEF VarintFacts
  <2>5. VarintBytes[n] \o rest = <<b>> \o tail /\ tail \in Seq(Nat)
    <3>1. tail \in Seq(Nat)
      <4> HIDE DEF m
      <4> QED BY <2>4, ConcatProperties
    <3>2. (<<b>> \o VarintBytes[m]) \o rest = <<b>> \o (VarintBytes[m] \o rest)
      <4> HIDE DEF m, b
      <4> QED BY ONLY Zenon, <2>4, rest \in Seq(Nat), Joined
    <3> QED BY <2>2, <3>1, <3>2, Zenon
  <2>6. /\ <<b>> \o tail \in Seq(Nat) /\ <<b>> \o tail # <<>>
        /\ Head(<<b>> \o tail) = b /\ Tail(<<b>> \o tail) = tail
    <3> HIDE DEF b, tail
    <3> QED BY <2>1, <2>5, InFront
  <2>7. Varint[<<b>> \o tail] = [number |-> (b % 128) + 128 * m, length |-> 1 + VarintSize[m]]
    <3> HIDE DEF b, tail, m
    <3>1. Varint[<<b>> \o tail] = VarintBody(Varint, <<b>> \o tail)
      BY Zenon, <2>6, VarintAt
    <3>2. Varint[tail].number = m /\ Varint[tail].length = VarintSize[m]
      BY <2>3
    <3> QED BY ONLY ZenonT(40), <2>1, <2>6, <3>1, <3>2 DEF VarintBody
  <2>8. (b % 128) + 128 * m = n
    <3> HIDE DEF b, m
    <3> QED BY <2>1
  <2> HIDE DEF b, tail, m
  <2> QED BY ZenonT(40), <2>2, <2>5, <2>7, <2>8
<1> QED BY <1>4, <1>5

-----------------------------------------------------------------------------
(* Records.                                                                *)

\* Taking and skipping a prefix.
LEMMA TakeSkip ==
    ASSUME NEW s \in Seq(Nat), NEW t \in Seq(Nat)
    PROVE  SubSeq(s \o t, 1, Len(s)) = s /\ Skip(s \o t, Len(s)) = t
<1>1. /\ s \o t \in Seq(Nat) /\ Len(s \o t) = Len(s) + Len(t)
      /\ \A i \in 1..Len(s) + Len(t) : (s \o t)[i] = IF i <= Len(s) THEN s[i] ELSE t[i - Len(s)]
  BY ConcatProperties
<1>2. Len(s) \in Nat /\ Len(t) \in Nat
  BY LenProperties
<1>3. SubSeq(s \o t, 1, Len(s)) = s
  BY SubSeqOfConcat1, SubSeqFull
<1>4. SubSeq(s \o t, Len(s) + 1, Len(s) + Len(t)) = t
  BY SubSeqOfConcat2, SubSeqFull
<1> QED BY <1>1, <1>2, <1>3, <1>4 DEF Skip

\* What is skipped of bytes leaves bytes.
LEMMA SkipBytes ==
    ASSUME NEW s \in Seq(Nat), NEW n \in Nat, n <= Len(s)
    PROVE  Skip(s, n) \in Seq(Nat) /\ Len(Skip(s, n)) = Len(s) - n
<1>1. Len(s) \in Nat
  BY LenProperties
<1> QED BY <1>1, SubSeqProperties DEF Skip

\* So does what is taken.
LEMMA TakeBytes ==
    ASSUME NEW s \in Seq(Nat), NEW n \in Nat, n <= Len(s)
    PROVE  SubSeq(s, 1, n) \in Seq(Nat) /\ Len(SubSeq(s, 1, n)) = n
<1>1. Len(s) \in Nat
  BY LenProperties
<1> QED BY <1>1, SubSeqProperties

\* Joined bytes are bytes.
LEMMA JoinedBytes ==
    \A s, t \in Seq(Nat) :
        /\ s \o t \in Seq(Nat)
        /\ Len(s) \in Nat /\ Len(t) \in Nat
        /\ Len(s \o t) = Len(s) + Len(t)
  BY ConcatProperties, LenProperties

\* Byte strings, their concatenation and the empty one, by their laws only.
ByteStrings == Seq(Nat)
Concat(s, t) == s \o t
EmptyString == <<>>

\* The laws of concatenation.
LEMMA ConcatLaws ==
    /\ EmptyString \in ByteStrings
    /\ \A s, t \in ByteStrings : Concat(s, t) \in ByteStrings
    /\ \A s \in ByteStrings : Concat(s, EmptyString) = s /\ Concat(EmptyString, s) = s
    /\ \A r, s, t \in ByteStrings : Concat(Concat(r, s), t) = Concat(r, Concat(s, t))
<1>1. <<>> \in Seq(Nat)
  BY EmptySeq
<1>2. \A s \in Seq(Nat) : s \o <<>> = s /\ <<>> \o s = s
  BY ConcatEmptySeq
<1> QED BY <1>1, <1>2, Joined, JoinedBytes, Zenon DEF ByteStrings, Concat, EmptyString

\* A record holds a number or bytes, as its tag says, and what follows is shorter.
RecordFacts(r, bytes) ==
    /\ r.tag \in Nat
    /\ r.tag % 8 = 0 => r.value \in Nat
    /\ r.tag % 8 # 0 => r.value \in Seq(Nat)
    /\ r.rest \in Seq(Nat)
    /\ Len(r.rest) < Len(bytes)

\* The first record of bytes that are not empty, as FirstRecord takes it.
LEMMA RecordTaken ==
    ASSUME NEW bytes \in Seq(Nat), bytes # <<>> PROVE RecordFacts(FirstRecord(bytes), bytes)
<1> DEFINE tag == Varint[bytes]
           body == Skip(bytes, tag.length)
           n == Varint[body]
           after == Skip(body, n.length)
<1>0. Len(bytes) \in Nat /\ Len(bytes) >= 1
  BY HeadAndTail
<1>1. tag.number \in Nat /\ tag.length \in Nat /\ tag.length <= Len(bytes) /\ tag.length >= 1
  BY VarintTaken DEF ReadFacts, Read
<1>2. body \in Seq(Nat) /\ Len(body) = Len(bytes) - tag.length
  <2> HIDE DEF tag
  <2> QED BY <1>1, SkipBytes
<1>3. n.number \in Nat /\ n.length \in Nat /\ n.length <= Len(body)
  <2> HIDE DEF body
  <2> QED BY <1>2, VarintTaken DEF ReadFacts, Read
<1>4. after \in Seq(Nat) /\ Len(after) = Len(body) - n.length
  <2> HIDE DEF body, n
  <2> QED BY Zenon, <1>2, <1>3, SkipBytes
<1>5. Len(after) < Len(bytes) /\ Len(after) \in Nat
  <2> HIDE DEF tag, body, n, after
  <2> QED BY <1>0, <1>1, <1>2, <1>3, <1>4, SMTT(30)
<1>6. FirstRecord(bytes) =
        IF tag.number % 8 = 0 THEN [tag |-> tag.number, value |-> n.number, rest |-> after]
        ELSE IF n.number > Len(after) THEN [tag |-> 0, value |-> 0, rest |-> <<>>]
        ELSE [tag |-> tag.number, value |-> SubSeq(after, 1, n.number), rest |-> Skip(after, n.number)]
  BY Zenon DEF FirstRecord
<1> HIDE DEF tag, body, n, after
<1>7. CASE tag.number % 8 = 0
  BY SMTT(40), <1>1, <1>3, <1>4, <1>5, <1>6, <1>7 DEF RecordFacts
<1>8. CASE tag.number % 8 # 0 /\ n.number > Len(after)
  <2>1. <<>> \in Seq(Nat) /\ Len(<<>>) = 0
    BY EmptySeq
  <2>2. FirstRecord(bytes) = [tag |-> 0, value |-> 0, rest |-> <<>>]
    BY <1>6, <1>8, Zenon
  <2> QED BY <1>0, <2>1, <2>2 DEF RecordFacts
<1>9. CASE tag.number % 8 # 0 /\ ~(n.number > Len(after))
  <2>1. FirstRecord(bytes) = [tag |-> tag.number, value |-> SubSeq(after, 1, n.number),
                              rest |-> Skip(after, n.number)]
    BY <1>6, <1>9, Zenon
  <2>2. n.number <= Len(after)
    BY <1>3, <1>5, <1>9
  <2>3. SubSeq(after, 1, n.number) \in Seq(Nat)
    BY <1>3, <1>4, <2>2, TakeBytes
  <2>4. Skip(after, n.number) \in Seq(Nat) /\ Len(Skip(after, n.number)) = Len(after) - n.number
    BY <1>3, <1>4, <2>2, SkipBytes, SMTT(30)
  <2>5. Len(Skip(after, n.number)) < Len(bytes)
    BY <1>0, <1>3, <1>5, <2>4
  <2> QED BY <1>1, <1>9, <2>1, <2>3, <2>4, <2>5 DEF RecordFacts
<1> QED BY <1>7, <1>8, <1>9

\* FirstRecord, given what its parts are.
LEMMA RecordOfNumber ==
    ASSUME NEW bytes, NEW body, NEW rest, NEW t, NEW l, NEW n, NEW m,
           Varint[bytes] = [number |-> t, length |-> l], Skip(bytes, l) = body,
           Varint[body] = [number |-> n, length |-> m], Skip(body, m) = rest,
           t % 8 = 0
    PROVE  FirstRecord(bytes) = [tag |-> t, value |-> n, rest |-> rest]
<1>1. Varint[bytes].number = t /\ Varint[bytes].length = l
  OBVIOUS
<1>2. Varint[body].number = n /\ Varint[body].length = m
  OBVIOUS
<1> QED BY <1>1, <1>2, Zenon DEF FirstRecord

\* A number written in front is the first record.
LEMMA NumberFirst ==
    ASSUME NEW f \in Nat, NEW n \in Nat, NEW rest \in Seq(Nat)
    PROVE  /\ Number(f, n) \in Seq(Nat) /\ Len(Number(f, n)) = VarintSize[8 * f] + VarintSize[n]
           /\ Number(f, n) \o rest \in Seq(Nat) /\ Number(f, n) \o rest # <<>>
           /\ FirstRecord(Number(f, n) \o rest) = [tag |-> 8 * f, value |-> n, rest |-> rest]
<1> DEFINE T == VarintBytes[8 * f]
           N == VarintBytes[n]
<1>0. 8 * f \in Nat
  OBVIOUS
<1>1. /\ T \in Seq(Nat) /\ Len(T) = VarintSize[8 * f] /\ VarintSize[8 * f] \in Nat
      /\ N \in Seq(Nat) /\ Len(N) = VarintSize[n] /\ VarintSize[n] \in Nat /\ VarintSize[n] >= 1
  BY <1>0, Varints DEF VarintFacts
<1>2. Number(f, n) = T \o N
  BY DEF Number
<1>3. Varint[T \o (N \o rest)] = [number |-> 8 * f, length |-> VarintSize[8 * f]]
  <2>1. N \o rest \in Seq(Nat)
    <3> HIDE DEF N
    <3> QED BY <1>1, ConcatProperties
  <2> QED BY Zenon, <1>0, <2>1, VarintReads DEF ReadsBack
<1>4. Varint[N \o rest] = [number |-> n, length |-> VarintSize[n]]
  BY VarintReads DEF ReadsBack
<1> DEFINE M == N \o rest
<1> HIDE DEF T, N
<1>5. M \in Seq(Nat) /\ Len(M) = Len(N) + Len(rest) /\ T \o N \in Seq(Nat) /\ Len(T \o N) = Len(T) + Len(N)
  BY <1>1, JoinedBytes, Zenon
<1>6. Number(f, n) \o rest = T \o M
  <2>1. (T \o N) \o rest = T \o (N \o rest)
    BY <1>1, Joined, Zenon
  <2> QED BY <2>1, <1>2, Zenon
<1>8. Skip(M, VarintSize[n]) = rest
  BY <1>1, TakeSkip
<1> HIDE DEF M
<1>7. Skip(T \o M, VarintSize[8 * f]) = M
  BY <1>1, <1>5, TakeSkip
<1>9. (8 * f) % 8 = 0
  OBVIOUS
<1>13. Varint[T \o M] = [number |-> 8 * f, length |-> VarintSize[8 * f]]
  BY <1>3, Zenon DEF M
<1>14. Varint[M] = [number |-> n, length |-> VarintSize[n]]
  BY <1>4, Zenon DEF M
<1>10. FirstRecord(T \o M) = [tag |-> 8 * f, value |-> n, rest |-> rest]
  BY ONLY <1>7, <1>8, <1>9, <1>13, <1>14, RecordOfNumber
<1>11. T \o M \in Seq(Nat) /\ T \o M # <<>>
  <2>1. T \o M \in Seq(Nat) /\ Len(T \o M) = Len(T) + Len(M)
    BY <1>1, <1>5, JoinedBytes, Zenon
  <2>2. Len(rest) \in Nat
    BY LenProperties
  <2>3. Len(T \o M) # 0
    BY <1>1, <1>5, <2>1, <2>2
  <2> QED BY <2>1, <2>3, EmptySeq
<1> QED BY <1>1, <1>2, <1>5, <1>6, <1>10, <1>11

\* Bytes written with their length in front are the first record.
LEMMA DelimitedFirst ==
    ASSUME NEW f \in Nat, NEW b \in Seq(Nat), NEW rest \in Seq(Nat)
    PROVE  /\ Delimited(f, b) \in Seq(Nat)
           /\ Len(Delimited(f, b)) = VarintSize[8 * f + 2] + VarintSize[Len(b)] + Len(b)
           /\ Delimited(f, b) \o rest \in Seq(Nat) /\ Delimited(f, b) \o rest # <<>>
           /\ FirstRecord(Delimited(f, b) \o rest) = [tag |-> 8 * f + 2, value |-> b, rest |-> rest]
<1> DEFINE T == VarintBytes[8 * f + 2]
           N == VarintBytes[Len(b)]
<1>0. 8 * f + 2 \in Nat /\ Len(b) \in Nat /\ Len(rest) \in Nat
  BY LenProperties
<1>1. /\ T \in Seq(Nat) /\ Len(T) = VarintSize[8 * f + 2] /\ VarintSize[8 * f + 2] \in Nat
      /\ N \in Seq(Nat) /\ Len(N) = VarintSize[Len(b)] /\ VarintSize[Len(b)] \in Nat
      /\ VarintSize[Len(b)] >= 1
  BY Zenon, <1>0, Varints DEF VarintFacts
<1>2. Delimited(f, b) = (T \o N) \o b
  BY Zenon DEF Delimited
<1>3. \A s \in Seq(Nat) : Varint[T \o s] = [number |-> 8 * f + 2, length |-> VarintSize[8 * f + 2]]
  BY <1>0, VarintReads DEF ReadsBack
<1>4. \A s \in Seq(Nat) : Varint[N \o s] = [number |-> Len(b), length |-> VarintSize[Len(b)]]
  BY <1>0, VarintReads DEF ReadsBack
<1> HIDE DEF T, N
<1> DEFINE A == b \o rest
           M == N \o A
<1>5. /\ A \in Seq(Nat) /\ Len(A) = Len(b) + Len(rest)
      /\ T \o N \in Seq(Nat) /\ Len(T \o N) = Len(T) + Len(N)
  BY <1>1, JoinedBytes, Zenon
<1>6. M \in Seq(Nat) /\ Len(M) = Len(N) + Len(A) /\ Len(A) \in Nat
  <2> HIDE DEF A
  <2> QED BY <1>1, <1>5, JoinedBytes, Zenon
<1>7. /\ T \o M \in Seq(Nat) /\ Len(T \o M) = Len(T) + Len(M)
      /\ (T \o N) \o b \in Seq(Nat) /\ Len((T \o N) \o b) = Len(T \o N) + Len(b)
  <2> HIDE DEF M
  <2> QED BY <1>1, <1>5, <1>6, JoinedBytes, Zenon
<1>8. ((T \o N) \o b) \o rest = T \o M
  <2>1. ((T \o N) \o b) \o rest = (T \o N) \o A
    BY <1>5, Joined, Zenon
  <2>2. (T \o N) \o A = T \o M
    <3> HIDE DEF A
    <3>0. T \in Seq(Nat) /\ N \in Seq(Nat) /\ A \in Seq(Nat)
      BY <1>1, <1>5
    <3>1. Concat(Concat(T, N), A) = Concat(T, Concat(N, A))
      BY <3>0, ConcatLaws DEF ByteStrings
    <3> QED BY <3>1, Zenon DEF Concat
  <2> QED BY <2>1, <2>2, Zenon
<1>9. /\ Skip(T \o M, VarintSize[8 * f + 2]) = M
      /\ Skip(N \o A, VarintSize[Len(b)]) = A
      /\ SubSeq(b \o rest, 1, Len(b)) = b /\ Skip(b \o rest, Len(b)) = rest
  <2>1. SubSeq(b \o rest, 1, Len(b)) = b /\ Skip(b \o rest, Len(b)) = rest
    BY TakeSkip, Zenon
  <2>2. Skip(N \o A, VarintSize[Len(b)]) = A
    <3> HIDE DEF A
    <3> QED BY <1>1, <1>5, TakeSkip
  <2>3. Skip(T \o M, VarintSize[8 * f + 2]) = M
    <3> HIDE DEF M
    <3> QED BY <1>1, <1>6, TakeSkip
  <2> QED BY <2>1, <2>2, <2>3
<1>10. Varint[T \o M] = [number |-> 8 * f + 2, length |-> VarintSize[8 * f + 2]]
  BY <1>3, <1>6, Zenon
<1>11. Varint[M] = [number |-> Len(b), length |-> VarintSize[Len(b)]]
  BY <1>4, <1>5, Zenon
<1>12. (8 * f + 2) % 8 # 0
  OBVIOUS
<1>13. ~(Len(b) > Len(A))
  <2> HIDE DEF A
  <2> QED BY <1>0, <1>5
<1>14. FirstRecord(T \o M) = [tag |-> 8 * f + 2, value |-> SubSeq(A, 1, Len(b)), rest |-> Skip(A, Len(b))]
  <2>1. Skip(M, VarintSize[Len(b)]) = A
    BY <1>9, Zenon
  <2> DEFINE bytes == T \o M
             t == 8 * f + 2
             l == VarintSize[8 * f + 2]
             n == Len(b)
             m == VarintSize[Len(b)]
  <2>2. /\ Varint[bytes] = [number |-> t, length |-> l] /\ Skip(bytes, l) = M
        /\ Varint[M] = [number |-> n, length |-> m] /\ Skip(M, m) = A
        /\ t % 8 # 0 /\ ~(n > Len(A))
    BY <1>9, <1>10, <1>11, <1>12, <1>13, <2>1, Zenon
  <2> HIDE DEF M, A, bytes, t, l, n, m
  <2>3. FirstRecord(bytes) = [tag |-> t, value |-> SubSeq(A, 1, n), rest |-> Skip(A, n)]
    <3>1. Varint[bytes].number = t /\ Varint[bytes].length = l
      BY ONLY <2>2
    <3>2. Varint[M].number = n /\ Varint[M].length = m
      BY ONLY <2>2
    <3> QED BY ONLY <2>2, <3>1, <3>2, Zenon DEF FirstRecord
  <2> QED BY <2>3, Zenon DEF bytes, t, n
<1>15. FirstRecord(T \o M) = [tag |-> 8 * f + 2, value |-> b, rest |-> rest]
  BY <1>9, <1>14, Zenon
<1>16. T \o M # <<>>
  <2> HIDE DEF M, A
  <2>1. Len(T \o M) # 0
    BY <1>0, <1>1, <1>5, <1>6, <1>7
  <2> QED BY <2>1, EmptySeq
<1>17. Len((T \o N) \o b) = VarintSize[8 * f + 2] + VarintSize[Len(b)] + Len(b)
  BY <1>1, <1>5, <1>7, Zenon
<1> HIDE DEF M
<1> QED BY <1>2, <1>7, <1>8, <1>15, <1>16, <1>17, Zenon

\* A varint below 128 is one byte.
LEMMA OneByte == \A n \in Nat : n < 128 => VarintSize[n] = 1 /\ VarintBytes[n] = <<n>>
<1>1. SUFFICES ASSUME NEW n \in Nat, n < 128 PROVE VarintSize[n] = 1 /\ VarintBytes[n] = <<n>>
  OBVIOUS
<1>2. n \div 128 = 0
  BY <1>1
<1>3. VarintSize[n] \in Nat /\ 1 <= VarintSize[n] /\ VarintSize[n] <= 1 + 0
  BY <1>2, Varints DEF VarintFacts
<1>4. VarintBytes[n] = <<n>>
  BY Zenon, <1>1, VarintStep
<1> QED BY <1>3, <1>4

\* A part that is written when present is counted when present.
LEMMA WhereCount ==
    ASSUME NEW p \in BOOLEAN, NEW b \in Seq(Nat), NEW n \in Nat, Len(b) = n
    PROVE  /\ Where(p, b) \in Seq(Nat) /\ Count(p, n) \in Nat
           /\ Len(Where(p, b)) = Count(p, n)
<1>1. <<>> \in Seq(Nat) /\ Len(<<>>) = 0
  BY EmptySeq
<1> QED BY <1>1 DEF Where, Count

\* The size of a string record and of a number record of a small field.
LEMMA RecordSizes ==
    ASSUME NEW f \in Nat, f < 15
    PROVE  /\ \A b \in Seq(Nat) :
                /\ Delimited(f, b) \in Seq(Nat) /\ StringSize(b) \in Nat
                /\ Len(Delimited(f, b)) = 1 + StringSize(b)
           /\ \A n \in Nat :
                /\ Number(f, n) \in Seq(Nat) /\ VarintSize[n] \in Nat
                /\ Len(Number(f, n)) = 1 + VarintSize[n]
<1>0. <<>> \in Seq(Nat)
  BY EmptySeq
<1>1. /\ 8 * f \in Nat /\ 8 * f < 128 /\ 8 * f + 2 \in Nat /\ 8 * f + 2 < 128
  OBVIOUS
<1>2. VarintSize[8 * f] = 1 /\ VarintSize[8 * f + 2] = 1
  BY <1>1, OneByte
<1>3. ASSUME NEW b \in Seq(Nat)
      PROVE  /\ Delimited(f, b) \in Seq(Nat) /\ StringSize(b) \in Nat
             /\ Len(Delimited(f, b)) = 1 + StringSize(b)
  <2>1. Len(b) \in Nat
    BY LenProperties
  <2>2. VarintSize[Len(b)] \in Nat
    BY <2>1, Varints DEF VarintFacts
  <2>3. Delimited(f, b) \in Seq(Nat) /\ Len(Delimited(f, b)) = VarintSize[8 * f + 2] + VarintSize[Len(b)] + Len(b)
    BY Zenon, <1>0, DelimitedFirst
  <2> QED BY <1>2, <2>1, <2>2, <2>3 DEF StringSize
<1>4. ASSUME NEW n \in Nat
      PROVE  /\ Number(f, n) \in Seq(Nat) /\ VarintSize[n] \in Nat
             /\ Len(Number(f, n)) = 1 + VarintSize[n]
  <2>1. VarintSize[n] \in Nat
    BY Varints DEF VarintFacts
  <2>2. Number(f, n) \in Seq(Nat) /\ Len(Number(f, n)) = VarintSize[8 * f] + VarintSize[n]
    BY Zenon, <1>0, NumberFirst
  <2> QED BY <1>2, <2>1, <2>2
<1> QED BY <1>3, <1>4

\* A string field and a number field, as written and as counted.
LEMMA StringPart ==
    ASSUME NEW p \in BOOLEAN, NEW f \in Nat, f < 15, NEW b \in Seq(Nat)
    PROVE  /\ Where(p, Delimited(f, b)) \in Seq(Nat) /\ Count(p, 1 + StringSize(b)) \in Nat
           /\ Len(Where(p, Delimited(f, b))) = Count(p, 1 + StringSize(b))
<1> DEFINE d == Delimited(f, b)
           n == 1 + StringSize(b)
<1>1. d \in Seq(Nat) /\ StringSize(b) \in Nat /\ Len(d) = n
  BY RecordSizes, Zenon
<1>2. n \in Nat
  BY <1>1
<1> HIDE DEF d, n
<1>3. /\ Where(p, d) \in Seq(Nat) /\ Count(p, n) \in Nat /\ Len(Where(p, d)) = Count(p, n)
  BY <1>1, <1>2, WhereCount, Zenon
<1> QED BY <1>3, Zenon DEF d, n

\* The size and the record of an optional number.
LEMMA NumberPart ==
    ASSUME NEW p \in BOOLEAN, NEW f \in Nat, f < 15, NEW v \in Nat
    PROVE  /\ Where(p, Number(f, v)) \in Seq(Nat) /\ Count(p, 1 + VarintSize[v]) \in Nat
           /\ Len(Where(p, Number(f, v))) = Count(p, 1 + VarintSize[v])
<1> DEFINE d == Number(f, v)
           n == 1 + VarintSize[v]
<1>1. d \in Seq(Nat) /\ VarintSize[v] \in Nat /\ Len(d) = n
  BY RecordSizes, Zenon
<1>2. n \in Nat
  BY <1>1
<1> HIDE DEF d, n
<1>3. /\ Where(p, d) \in Seq(Nat) /\ Count(p, n) \in Nat /\ Len(Where(p, d)) = Count(p, n)
  BY <1>1, <1>2, WhereCount, Zenon
<1> QED BY <1>3, Zenon DEF d, n

\* The size of a content is the number of bytes it is written in.
LEMMA ContentSize ==
    ASSUME NEW c \in ContentMessages
    PROVE  /\ Content_InternalSerialize(c) \in Seq(Nat) /\ Content_ByteSizeLong(c) \in Nat
           /\ Len(Content_InternalSerialize(c)) = Content_ByteSizeLong(c)
<1> DEFINE p == "service_name" \in c.has
           q == "proxy_port" \in c.has
           s == c.service_name
           v == c.proxy_port
<1>1. s \in Seq(Nat) /\ v \in Nat
  BY DEF ContentMessages
<1>3. p \in BOOLEAN /\ q \in BOOLEAN
  OBVIOUS
<1> DEFINE X == Where(p, Delimited(1, s))
           Y == Where(q, Number(2, v))
           x == Count(p, 1 + StringSize(s))
           y == Count(q, 1 + VarintSize[v])
<1>4. Content_InternalSerialize(c) = X \o Y /\ Content_ByteSizeLong(c) = x + y
  BY Zenon DEF Content_InternalSerialize, Content_ByteSizeLong
<1> HIDE DEF p, q, s, v
<1>5. X \in Seq(Nat) /\ x \in Nat /\ Len(X) = x
  BY <1>1, <1>3, 1 < 15, 1 \in Nat, StringPart, Zenon
<1>6. Y \in Seq(Nat) /\ y \in Nat /\ Len(Y) = y
  BY <1>1, <1>3, 2 < 15, 2 \in Nat, NumberPart, Zenon
<1> HIDE DEF X, Y, x, y
<1>7. X \o Y \in Seq(Nat) /\ Len(X \o Y) = Len(X) + Len(Y)
  BY <1>5, <1>6, JoinedBytes, Zenon
<1> QED BY <1>4, <1>5, <1>6, <1>7

\* The record of the content is the bytes of the content with their number in front.
LEMMA ContentRecord ==
    ASSUME NEW c \in ContentMessages
    PROVE  VarintBytes[26] \o VarintBytes[Content_ByteSizeLong(c)] \o Content_InternalSerialize(c)
             = Delimited(3, Content_InternalSerialize(c))
  BY ContentSize, 8 * 3 + 2 = 26, Zenon DEF Delimited

\* A present content is there.
ContentThere(h) ==
    /\ h \in HelloMessages
    /\ h.content = NULL \/ h.content \in ContentMessages
    /\ "content" \in h.has => h.content # NULL

\* What the getter of the content shows is a content, allocated or not.
LEMMA ContentShown ==
    ASSUME NEW h, ContentThere(h)
    PROVE  /\ control_channel_hello_content(h) \in ContentMessages
           /\ "content" \in h.has => control_channel_hello_content(h) = h.content
<1>1. <<>> \in Seq(Nat)
  BY EmptySeq
<1> QED BY <1>1 DEF ContentThere, control_channel_hello_content, NewContent, Empty, ContentMessages

\* A message as the three records it may be written in.
LEMMA HelloRecords ==
    ASSUME NEW h, ContentThere(h)
    PROVE  SerializeAsString(h) =
             (Where("hello_type" \in h.has, Number(1, h.hello_type))
               \o Where("digest" \in h.has, Delimited(2, h.digest)))
               \o Where("content" \in h.has, Delimited(3,
                       Content_InternalSerialize(control_channel_hello_content(h))))
<1> DEFINE c == control_channel_hello_content(h)
<1>1. c \in ContentMessages /\ ("content" \in h.has => c = h.content)
  BY ContentShown
<1>2. SerializeAsString(h) = (Where("hello_type" \in h.has, Number(1, h.hello_type))
         \o Where("digest" \in h.has, Delimited(2, h.digest)))
         \o Where("content" \in h.has, VarintBytes[26] \o VarintBytes[Content_ByteSizeLong(c)]
                                           \o Content_InternalSerialize(h.content))
  BY Zenon DEF SerializeAsString, Hello_InternalSerialize
<1> HIDE DEF c
<1>3. CASE "content" \in h.has
  BY <1>1, <1>2, <1>3, ContentRecord, Zenon DEF c
<1>4. CASE "content" \notin h.has
  <2>1. \A a, b : Where("content" \in h.has, a) = Where("content" \in h.has, b)
    BY <1>4, Zenon DEF Where
  <2> QED BY <1>2, <2>1, Zenon DEF c
<1> QED BY <1>3, <1>4

\* The same for a message.
LEMMA HelloSize ==
    ASSUME NEW h, ContentThere(h)
    PROVE  /\ SerializeAsString(h) \in Seq(Nat) /\ Hello_ByteSizeLong(h) \in Nat
           /\ Len(SerializeAsString(h)) = Hello_ByteSizeLong(h)
<1> DEFINE c == control_channel_hello_content(h)
           b == Content_InternalSerialize(c)
           n == Content_ByteSizeLong(c)
           p == "hello_type" \in h.has
           q == "digest" \in h.has
           r == "content" \in h.has
           X == Where(p, Number(1, h.hello_type))
           Y == Where(q, Delimited(2, h.digest))
           Z == Where(r, Delimited(3, b))
           x == Count(p, 1 + VarintSize[h.hello_type])
           y == Count(q, 1 + StringSize(h.digest))
           z == Count(r, 1 + StringSize(b))
<1>1. h.hello_type \in Nat /\ h.digest \in Seq(Nat)
  BY DEF ContentThere, HelloMessages
<1>2. c \in ContentMessages /\ (r => c = h.content)
  BY ContentShown
<1>3. b \in Seq(Nat) /\ n \in Nat /\ Len(b) = n
  <2> HIDE DEF c
  <2> QED BY <1>2, ContentSize
<1>4. SerializeAsString(h) = (X \o Y) \o Z
  BY HelloRecords
<1>5. Hello_ByteSizeLong(h) = y + z + x
  <2>1. Count(r, LET m == Content_ByteSizeLong(h.content) IN 1 + VarintSize[m] + m) = z
    <3>1. CASE r
      <4>1. StringSize(b) = VarintSize[n] + n /\ VarintSize[n] \in Nat
        <5> HIDE DEF b, n
        <5> QED BY <1>3, Varints DEF StringSize, VarintFacts
      <4>2. 1 + StringSize(b) = 1 + VarintSize[n] + n
        <5> HIDE DEF b, n
        <5> QED BY <1>3, <4>1
      <4>3. h.content = c
        BY <1>2, <3>1
      <4> QED BY <4>2, <4>3, Zenon
    <3>2. CASE ~r
      BY <3>2, Zenon DEF Count
    <3> QED BY <3>1, <3>2
  <2> QED BY <2>1, Zenon DEF Hello_ByteSizeLong
<1>6. X \in Seq(Nat) /\ x \in Nat /\ Len(X) = x
  BY <1>1, 1 < 15, 1 \in Nat, NumberPart, p \in BOOLEAN, Zenon
<1>7. Y \in Seq(Nat) /\ y \in Nat /\ Len(Y) = y
  BY <1>1, 2 < 15, 2 \in Nat, StringPart, q \in BOOLEAN, Zenon
<1>8. Z \in Seq(Nat) /\ z \in Nat /\ Len(Z) = z
  <2> HIDE DEF b
  <2> QED BY <1>3, 3 < 15, 3 \in Nat, StringPart, r \in BOOLEAN, Zenon
<1> HIDE DEF X, Y, Z, x, y, z
<1>9. X \o Y \in Seq(Nat) /\ Len(X \o Y) = Len(X) + Len(Y)
  BY <1>6, <1>7, JoinedBytes, Zenon
<1> DEFINE W == X \o Y
<1> HIDE DEF W
<1>10. W \o Z \in Seq(Nat) /\ Len(W \o Z) = Len(W) + Len(Z)
  BY <1>8, <1>9, JoinedBytes, Zenon DEF W
<1>11. Len(W) = x + y /\ SerializeAsString(h) = W \o Z
  BY <1>4, <1>6, <1>7, <1>9, Zenon DEF W
<1> QED BY <1>5, <1>6, <1>7, <1>8, <1>10, <1>11

-----------------------------------------------------------------------------
(* How long a message can be, and frames.                                  *)

\* The sizes of the strings, numbers and contents in use.
StringLimit == 541065216
NumberLimit == 16777217
ContentLimit == 574619653

\* The record of a string in use stays below its limit.
LEMMA StringBound ==
    ASSUME NEW s \in Strings
    PROVE  /\ 1 + StringSize(s) \in Nat
           /\ 1 <= 1 + StringSize(s) /\ 1 + StringSize(s) <= StringLimit + 1
<1>1. s \in Seq(Nat) /\ Len(s) \in Nat /\ Len(s) < MaxString
  BY HelloAssumption, LenProperties
<1>2. VarintSize[Len(s)] \in Nat /\ VarintSize[Len(s)] <= 1 + (Len(s) \div 128)
  BY <1>1, Varints DEF VarintFacts
<1>3. Len(s) \div 128 \in Nat /\ Len(s) \div 128 < 4194304
  BY <1>1, SMT DEF MaxString
<1> QED BY <1>1, <1>2, <1>3, SMT DEF StringSize, StringLimit, MaxString

\* So does the record of a number of 31 bits.
LEMMA NumberBound ==
    ASSUME NEW v \in Nat, v <= MaxInt32
    PROVE  /\ 1 + VarintSize[v] \in Nat
           /\ 1 <= 1 + VarintSize[v] /\ 1 + VarintSize[v] <= NumberLimit + 1
<1>1. VarintSize[v] \in Nat /\ VarintSize[v] <= 1 + (v \div 128)
  BY Varints DEF VarintFacts
<1>2. v \div 128 \in Nat /\ v \div 128 < 16777216
  BY SMT DEF MaxInt32
<1> QED BY <1>1, <1>2, SMT DEF NumberLimit

\* A part that is counted when present is no larger than its bound.
LEMMA CountBound ==
    ASSUME NEW p \in BOOLEAN, NEW n \in Nat, NEW m \in Nat, 1 <= n, n <= m
    PROVE  Count(p, n) \in Nat /\ Count(p, n) <= m /\ (p => 1 <= Count(p, n))
  BY DEF Count

\* The limits as numbers.
LEMMA Limits ==
    /\ StringLimit + 1 \in Nat /\ NumberLimit + 1 \in Nat /\ ContentLimit + 1 \in Nat
    /\ (StringLimit + 1) + (NumberLimit + 1) + (NumberLimit + 1) <= ContentLimit + 1
    /\ (StringLimit + 1) + (NumberLimit + 1) <= MaxInt32
    /\ (StringLimit + 1) + (ContentLimit + 1) + (NumberLimit + 1) <= MaxInt32
    /\ MaxInt32 \in Nat /\ 1 <= MaxInt32
  BY SMT DEF StringLimit, NumberLimit, ContentLimit, MaxInt32

\* The size of a content is bounded, and it is not zero when a field is there.
LEMMA ContentBound ==
    ASSUME NEW c \in ContentObjects
    PROVE  /\ Content_ByteSizeLong(c) \in Nat
           /\ Content_ByteSizeLong(c) <= (StringLimit + 1) + (NumberLimit + 1)
<1> DEFINE p == "service_name" \in c.has
           q == "proxy_port" \in c.has
           m == 1 + StringSize(c.service_name)
           n == 1 + VarintSize[c.proxy_port]
<1>1. c.service_name \in Strings /\ c.proxy_port \in Ports
  BY DEF ContentObjects
<1>2. c.proxy_port \in Nat /\ c.proxy_port <= MaxInt32
  BY <1>1, HelloAssumption
<1>3. m \in Nat /\ 1 <= m /\ m <= StringLimit + 1
  BY <1>1, StringBound
<1>4. n \in Nat /\ 1 <= n /\ n <= NumberLimit + 1
  BY <1>2, NumberBound
<1>5. Content_ByteSizeLong(c) = Count(p, m) + Count(q, n)
  BY Zenon DEF Content_ByteSizeLong
<1>6. p \in BOOLEAN /\ q \in BOOLEAN
  OBVIOUS
<1> HIDE DEF p, q, m, n
<1>7. /\ Count(p, m) \in Nat /\ Count(p, m) <= StringLimit + 1
      /\ Count(q, n) \in Nat /\ Count(q, n) <= NumberLimit + 1
  BY <1>3, <1>4, <1>6, Limits, CountBound, Zenon
<1> QED BY <1>5, <1>7, Limits

\* A message of the program is in reach of a 32-bit length, and one with a field is
\* not empty.
LEMMA HelloBound ==
    ASSUME NEW h \in HelloObjects, "content" \in h.has => h.content # NULL
    PROVE  /\ Hello_ByteSizeLong(h) \in Nat /\ Hello_ByteSizeLong(h) <= MaxInt32
           /\ h.has # {} => Hello_ByteSizeLong(h) >= 1
<1> DEFINE p == "hello_type" \in h.has
           q == "digest" \in h.has
           r == "content" \in h.has
           n == Content_ByteSizeLong(h.content)
           x == Count(p, 1 + VarintSize[h.hello_type])
           y == Count(q, 1 + StringSize(h.digest))
           z == Count(r, 1 + VarintSize[n] + n)
<1>1. /\ h.has \subseteq {"hello_type", "digest", "content"}
      /\ h.hello_type \in {0, 1} /\ h.digest \in Strings
      /\ r => h.content \in ContentObjects
  BY DEF HelloObjects, Hello_HelloType
<1>2. x \in Nat /\ x <= NumberLimit + 1 /\ (p => 1 <= x)
  <2> DEFINE m == 1 + VarintSize[h.hello_type]
  <2>1. h.hello_type \in Nat /\ h.hello_type <= MaxInt32
    BY <1>1, Limits
  <2>2. m \in Nat /\ 1 <= m /\ m <= NumberLimit + 1
    BY <2>1, NumberBound
  <2>3. p \in BOOLEAN
    OBVIOUS
  <2> HIDE DEF m, p
  <2>4. Count(p, m) \in Nat /\ Count(p, m) <= NumberLimit + 1 /\ (p => 1 <= Count(p, m))
    BY <2>2, <2>3, Limits, CountBound, Zenon
  <2> QED BY <2>4, Zenon DEF m
<1>3. y \in Nat /\ y <= StringLimit + 1 /\ (q => 1 <= y)
  <2> DEFINE m == 1 + StringSize(h.digest)
  <2>2. m \in Nat /\ 1 <= m /\ m <= StringLimit + 1
    BY <1>1, StringBound
  <2>3. q \in BOOLEAN
    OBVIOUS
  <2> HIDE DEF m, q
  <2>4. Count(q, m) \in Nat /\ Count(q, m) <= StringLimit + 1 /\ (q => 1 <= Count(q, m))
    BY <2>2, <2>3, Limits, CountBound, Zenon
  <2> QED BY <2>4, Zenon DEF m
<1>4. z \in Nat /\ z <= ContentLimit + 1 /\ (r => 1 <= z)
  <2>1. CASE r
    <3>1. n \in Nat /\ n <= (StringLimit + 1) + (NumberLimit + 1)
      BY <1>1, <2>1, ContentBound
    <3>5. z = 1 + VarintSize[n] + n
      BY <2>1, Zenon DEF Count
    <3> HIDE DEF n, z
    <3>2. n <= MaxInt32
      BY <3>1, Limits
    <3>3. 1 + VarintSize[n] \in Nat /\ 1 <= 1 + VarintSize[n] /\ 1 + VarintSize[n] <= NumberLimit + 1
      BY <3>1, <3>2, NumberBound
    <3>4. (1 + VarintSize[n]) + n \in Nat /\ (1 + VarintSize[n]) + n <= ContentLimit + 1
          /\ 1 <= (1 + VarintSize[n]) + n
      <4> DEFINE m == 1 + VarintSize[n]
      <4>1. m \in Nat /\ 1 <= m /\ m <= NumberLimit + 1
        BY <3>3
      <4> HIDE DEF m
      <4>2. m + n \in Nat /\ m + n <= ContentLimit + 1 /\ 1 <= m + n
        BY <3>1, <4>1, Limits
      <4> QED BY <4>2, Zenon DEF m
    <3> QED BY <3>4, <3>5, Zenon
  <2>2. CASE ~r
    <3>1. z = 0
      BY <2>2, Zenon DEF Count
    <3> HIDE DEF z
    <3> QED BY <2>2, <3>1, Limits
  <2> QED BY <2>1, <2>2
<1>5. Hello_ByteSizeLong(h) = y + z + x
  BY Zenon DEF Hello_ByteSizeLong
<1>6. h.has # {} => p \/ q \/ r
  BY <1>1
<1> HIDE DEF x, y, z, p, q, r
<1> QED BY <1>2, <1>3, <1>4, <1>5, <1>6, Limits

\* The four bytes of a length give it back.
LEMMA Fixed32Reads ==
    ASSUME NEW n \in Nat, n <= MaxInt32
    PROVE  Fixed32(n) \in Seq(Nat) /\ Len(Fixed32(n)) = 4 /\ Fixed32Number(Fixed32(n)) = n
<1> DEFINE a == n \div 256
           b == n \div 65536
           c == n \div 16777216
<1>1. a \in Nat /\ b \in Nat /\ c \in Nat /\ c < 256
  BY SMT DEF MaxInt32
<1>2. n = 256 * a + (n % 256) /\ n % 256 \in Nat
  BY SMT
<1>3. b = a \div 256 /\ c = b \div 256
  BY SMT
<1> HIDE DEF a, b, c
<1>4. a = 256 * b + (a % 256) /\ a % 256 \in Nat
  BY <1>1, <1>3, SMT
<1>5. b = 256 * c + (b % 256) /\ b % 256 \in Nat
  BY <1>1, <1>3, SMT
<1>6. c % 256 = c
  BY <1>1
<1>7. Fixed32(n) = <<n % 256, a % 256, b % 256, c % 256>>
  BY SMT DEF Fixed32, a, b, c
<1> DEFINE d0 == n % 256
           d1 == a % 256
           d2 == b % 256
           d3 == c % 256
<1>8. d0 \in Nat /\ d1 \in Nat /\ d2 \in Nat /\ d3 \in Nat /\ n = d0 + 256 * d1 + 65536 * d2 + 16777216 * d3
  BY <1>1, <1>2, <1>4, <1>5, <1>6, SMT
<1>9. Fixed32(n) = <<d0, d1, d2, d3>>
  BY <1>7
<1> HIDE DEF d0, d1, d2, d3
<1>10. Fixed32Number(<<d0, d1, d2, d3>>) = d0 + 256 * d1 + 65536 * d2 + 16777216 * d3
  BY <1>8, SMT DEF Fixed32Number
<1>11. <<d0, d1, d2, d3>> \in Seq(Nat) /\ Len(<<d0, d1, d2, d3>>) = 4
  BY <1>8, SMT
<1>12. Fixed32Number(Fixed32(n)) = n
  <2> DEFINE sum == d0 + 256 * d1 + 65536 * d2 + 16777216 * d3
  <2>1. n = sum /\ Fixed32Number(<<d0, d1, d2, d3>>) = sum
    BY <1>8, <1>10
  <2> HIDE DEF sum
  <2> QED BY <1>9, <2>1, Zenon
<1> QED BY <1>9, <1>11, <1>12, Zenon

\* A header is five bytes that give the length back.
LEMMA HeaderReads ==
    ASSUME NEW n \in Nat, 1 <= n, n <= MaxInt32
    PROVE  /\ Header_InternalSerialize(n) \in Seq(Nat)
           /\ Len(Header_InternalSerialize(n)) = MSG_HEADER_LENGTH
           /\ Header_table(Header_InternalSerialize(n)) = n
<1> DEFINE F == Fixed32(n)
           H == <<13>> \o F
<1>1. F \in Seq(Nat) /\ Len(F) = 4 /\ Fixed32Number(F) = n
  BY Fixed32Reads
<1>2. Header_InternalSerialize(n) = H
  BY DEF Header_InternalSerialize, Where
<1> HIDE DEF F
<1>3. /\ H \in Seq(Nat) /\ H # <<>> /\ Head(H) = 13 /\ Tail(H) = F
  BY <1>1, 13 \in Nat, InFront, Zenon
<1>4. Len(H) = 5
  <2>1. <<13>> \in Seq(Nat) /\ Len(<<13>>) = 1
    OBVIOUS
  <2>2. Len(H) = Len(<<13>>) + Len(F)
    BY <1>1, <2>1, JoinedBytes, Zenon
  <2> HIDE DEF H
  <2> QED BY <1>1, <2>1, <2>2
<1> HIDE DEF H
<1>5. H[1] = 13
  BY <1>3
<1> QED BY Zenon, <1>1, <1>2, <1>3, <1>4, <1>5 DEF Header_table, MSG_HEADER_LENGTH

\* What is taken from what was taken.
LEMMA TakeTake ==
    ASSUME NEW s \in Seq(Nat), NEW m \in Nat, NEW n \in Nat, m <= n, n <= Len(s)
    PROVE  SubSeq(SubSeq(s, 1, n), 1, m) = SubSeq(s, 1, m)
<1> DEFINE t == SubSeq(s, 1, n)
<1>0. Len(s) \in Nat
  BY LenProperties
<1>1. t \in Seq(Nat) /\ Len(t) = n /\ \A i \in 1..n : t[i] = s[i]
  BY <1>0, SubSeqProperties
<1> HIDE DEF t
<1>2. /\ SubSeq(t, 1, m) \in Seq(Nat) /\ Len(SubSeq(t, 1, m)) = m
      /\ \A i \in 1..m : SubSeq(t, 1, m)[i] = t[i]
  BY <1>1, SubSeqProperties
<1>3. /\ SubSeq(s, 1, m) \in Seq(Nat) /\ Len(SubSeq(s, 1, m)) = m
      /\ \A i \in 1..m : SubSeq(s, 1, m)[i] = s[i]
  BY <1>0, SubSeqProperties
<1>4. \A i \in 1..m : SubSeq(t, 1, m)[i] = SubSeq(s, 1, m)[i]
  BY <1>1, <1>2, <1>3
<1>5. SubSeq(t, 1, m) = SubSeq(s, 1, m)
  BY <1>2, <1>3, <1>4, SeqEqual
<1> QED BY <1>5 DEF t

\* A message that a frame can carry.
Sendable(msg) == msg \in Seq(Nat) /\ 1 <= Len(msg) /\ Len(msg) <= MaxInt32

\* A frame is a header of five bytes and the message.
LEMMA FrameBytes ==
    ASSUME NEW msg, Sendable(msg)
    PROVE  headerInstaller(msg) \in Seq(Nat) /\ Len(headerInstaller(msg)) = 5 + Len(msg)
<1> DEFINE H == Header_InternalSerialize(Len(msg))
<1>1. msg \in Seq(Nat) /\ Len(msg) \in Nat
  BY LenProperties DEF Sendable
<1>2. H \in Seq(Nat) /\ Len(H) = 5
  BY <1>1, HeaderReads DEF Sendable, MSG_HEADER_LENGTH
<1> HIDE DEF H
<1>3. H \o msg \in Seq(Nat) /\ Len(H \o msg) = Len(H) + Len(msg)
  BY <1>1, <1>2, JoinedBytes, Zenon
<1> QED BY <1>2, <1>3, Zenon DEF headerInstaller, H

\* However the bytes that start with a frame are cut, the frame is read when it is whole,
\* and until then nothing of it is taken from the buffer.
LEMMA FrameRead ==
    ASSUME NEW msg, Sendable(msg), NEW rest \in Seq(Nat), NEW k \in Nat,
           k <= Len(headerInstaller(msg) \o rest)
    PROVE  LET cut == SubSeq(headerInstaller(msg) \o rest, 1, k)
           IN  /\ canReadMsg(cut) = IF k < MSG_HEADER_LENGTH + Len(msg) THEN 0 ELSE Len(msg)
               /\ LeftOnZero(cut) = cut
<1> DEFINE H == Header_InternalSerialize(Len(msg))
           S == headerInstaller(msg) \o rest
           M == msg \o rest
           T == SubSeq(S, 1, k)
<1>1. msg \in Seq(Nat) /\ Len(msg) \in Nat /\ 1 <= Len(msg) /\ Len(msg) <= MaxInt32
  BY LenProperties DEF Sendable
<1>2. H \in Seq(Nat) /\ Len(H) = 5 /\ Header_table(H) = Len(msg)
  BY <1>1, HeaderReads DEF MSG_HEADER_LENGTH
<1>3. S = (H \o msg) \o rest
  BY Zenon DEF headerInstaller
<1> HIDE DEF H
<1>4. M \in Seq(Nat) /\ S = H \o M
  <2>1. M \in Seq(Nat)
    BY <1>1, JoinedBytes, Zenon
  <2>2. (H \o msg) \o rest = H \o (msg \o rest)
    BY <1>1, <1>2, Joined, Zenon
  <2> QED BY <2>1, <2>2, <1>3, Zenon
<1>0. k <= Len(S)
  OBVIOUS
<1> HIDE DEF M, S
<1>5. S \in Seq(Nat) /\ Len(S) \in Nat
  BY <1>2, <1>4, JoinedBytes, Zenon
<1>6. SubSeq(S, 1, 5) = H
  BY Zenon, <1>2, <1>4, TakeSkip
<1>7. T \in Seq(Nat) /\ Len(T) = k
  BY <1>0, <1>5, TakeBytes
<1>8. CASE k < 5
  <2>1. canReadMsg(T) = 0 /\ LeftOnZero(T) = T
    <3> HIDE DEF T
    <3> QED BY <1>7, <1>8 DEF canReadMsg, LeftOnZero, MSG_HEADER_LENGTH
  <2>2. k < MSG_HEADER_LENGTH + Len(msg)
    BY <1>1, <1>8 DEF MSG_HEADER_LENGTH
  <2> QED BY <2>1, <2>2, Zenon DEF S, T
<1>9. CASE ~(k < 5)
  <2>1. SubSeq(T, 1, 5) = H
    BY <1>0, <1>5, <1>6, <1>9, TakeTake
  <2> HIDE DEF T
  <2>2. canReadMsg(T) = IF k < Len(msg) + 5 THEN 0 ELSE Len(msg)
    BY <1>2, <1>7, <1>9, <2>1, Zenon DEF canReadMsg, MSG_HEADER_LENGTH
  <2>3. Len(msg) + 5 = MSG_HEADER_LENGTH + Len(msg)
    BY <1>1 DEF MSG_HEADER_LENGTH
  <2>4. LeftOnZero(T) = T
    <3>1. Len(msg) # 0
      BY <1>1
    <3> QED BY <1>2, <2>1, <3>1, Zenon DEF LeftOnZero, MSG_HEADER_LENGTH
  <2> QED BY <2>2, <2>3, <2>4, Zenon DEF S, T
<1> QED BY <1>8, <1>9

\* The message and what follows the frame are where canReadMsg says.
LEMMA FrameParts ==
    ASSUME NEW msg, Sendable(msg), NEW rest \in Seq(Nat)
    PROVE  LET S == headerInstaller(msg) \o rest
               n == Len(msg)
           IN  /\ canReadMsg(S) = n
               /\ SubSeq(S, MSG_HEADER_LENGTH + 1, MSG_HEADER_LENGTH + n) = msg
               /\ SubSeq(S, MSG_HEADER_LENGTH + n + 1, Len(S)) = rest
<1> DEFINE H == Header_InternalSerialize(Len(msg))
           F == headerInstaller(msg)
           S == F \o rest
           n == Len(msg)
<1>1. msg \in Seq(Nat) /\ n \in Nat /\ 1 <= n /\ n <= MaxInt32 /\ Len(rest) \in Nat
  BY LenProperties DEF Sendable
<1>2. H \in Seq(Nat) /\ Len(H) = 5
  BY <1>1, HeaderReads DEF MSG_HEADER_LENGTH
<1>3. F \in Seq(Nat) /\ Len(F) = 5 + n
  BY FrameBytes
<1>4. F = H \o msg
  BY Zenon DEF headerInstaller
<1> HIDE DEF H, F
<1>5. S \in Seq(Nat) /\ Len(S) = Len(F) + Len(rest) /\ Skip(S, Len(F)) = rest /\ SubSeq(S, 1, Len(F)) = F
  BY <1>3, JoinedBytes, TakeSkip, Zenon
<1> HIDE DEF S
<1>6. Len(S) \in Nat /\ Len(S) <= Len(S) /\ ~(Len(S) < 5 + n)
  BY <1>1, <1>3, <1>5
<1>7. canReadMsg(S) = n
  <2>1. SubSeq(S, 1, Len(S)) = S
    BY <1>5, SubSeqFull
  <2>2. canReadMsg(SubSeq(S, 1, Len(S))) = IF Len(S) < MSG_HEADER_LENGTH + n THEN 0 ELSE n
    BY <1>6, FrameRead DEF S, F
  <2>3. canReadMsg(SubSeq(S, 1, Len(S))) = n
    BY <1>6, <2>2, Zenon DEF MSG_HEADER_LENGTH
  <2> QED BY <2>1, <2>3, Zenon
<1>8. SubSeq(S, 5 + n + 1, Len(S)) = rest
  BY <1>3, <1>5, Zenon DEF Skip
<1>9. SubSeq(S, 5 + 1, 5 + n) = msg
  <2>1. SubSeq(F, 5 + 1, 5 + n) = msg
    BY <1>1, <1>2, <1>3, <1>4, TakeSkip DEF Skip
  <2>2. SubSeq(F \o rest, 5 + 1, 5 + n) = SubSeq(F, 5 + 1, 5 + n)
    BY <1>1, <1>3, SubSeqOfConcat1
  <2> QED BY <2>1, <2>2, Zenon DEF S
<1> QED BY <1>7, <1>8, <1>9, Zenon DEF MSG_HEADER_LENGTH, S, F

\* What a message of one enum is written as.
LEMMA EnumBytes ==
    ASSUME NEW v \in {0, 1}
    PROVE  Sendable(<<8, v>>) /\ Len(<<8, v>>) = 2 /\ <<8, v>> # <<>> /\ <<8, v>>[2] = v
  BY Limits, SMT DEF Sendable, MaxInt32

=============================================================================
