------------------------ MODULE OrderedSelectionProofs ------------------------
(***************************************************************************)
(* Facts about selections and sequences, for every set and sequence: a     *)
(* selection has the members selected, each at one place and in order, and *)
(* a flattened sequence the elements of its parts.                         *)
(***************************************************************************)
EXTENDS OrderedSelection, SequencesExt, FiniteSetsExt, FiniteSetTheorems,
        FunctionTheorems, WellFoundedInduction, TLAPS

------------------------------------------------------------------------------
\* Least and greatest elements

LEMMA LessThan == \E Less : /\ IsWellFoundedOn(Less, Nat)
                            /\ \A x, y \in Nat : <<y, x>> \in Less <=> y < x
<1>1. \A x, y \in Nat : <<y, x>> \in OpToRel(<, Nat) <=> y < x
  BY Zenon DEF OpToRel
<1>2. QED BY <1>1, NatLessThanWellFounded, Zenon

LEMMA LeastNatural ==
    ASSUME NEW S \in SUBSET Nat, S # {}
    PROVE  \E m \in S : \A y \in S : m <= y
<1>1. PICK Less : /\ IsWellFoundedOn(Less, Nat)
                  /\ \A x, y \in Nat : <<y, x>> \in Less <=> y < x
  BY LessThan, Zenon
<1>2. PICK m \in S : \A y \in S : <<y, m>> \notin Less
  BY <1>1, WFMin, Zenon
<1>3. \A y \in S : m <= y
  <2> TAKE y \in S
  <2>1. m \in Nat /\ y \in Nat OBVIOUS
  <2>2. ~(y < m) BY <1>1, <1>2, <2>1, Zenon
  <2>3. QED BY <2>1, <2>2
<1>4. QED BY <1>3

LEMMA LeastPosition ==
    ASSUME NEW S \in SUBSET Nat, S # {}
    PROVE  Min(S) \in S /\ \A y \in S : Min(S) <= y
  BY LeastNatural, Zenon DEF Min

\* Induction along the naturals, without an operator parameter.
LEMMA SetInduction ==
    ASSUME NEW S, 0 \in S, \A n \in Nat : n \in S => n + 1 \in S
    PROVE  Nat \subseteq S
<1> SUFFICES ASSUME ~(Nat \subseteq S) PROVE FALSE OBVIOUS
<1>1. PICK m \in Nat \ S : \A y \in Nat \ S : m <= y
  BY LeastNatural
<1>2. m - 1 \in Nat /\ m - 1 \in S BY <1>1
<1>3. QED BY <1>1, <1>2

LEMMA GreatestPosition ==
    ASSUME NEW n \in Nat, NEW S \in SUBSET (0..n), S # {}
    PROVE  Max(S) \in S /\ \A y \in S : Max(S) >= y
<1> DEFINE T == {n - y : y \in S}
<1>1. T \in SUBSET Nat /\ T # {} OBVIOUS
<1>2. PICK m \in T : \A y \in T : m <= y BY <1>1, LeastNatural
<1>3. PICK x \in S : m = n - x BY <1>2
<1>4. \A y \in S : x >= y
  <2> TAKE y \in S
  <2>1. m <= n - y BY <1>2
  <2>2. QED BY <1>3, <2>1
<1>5. QED BY <1>3, <1>4, Zenon DEF Max

\* Of finitely many places one has the greatest value.
LEMMA GreatestValue ==
    ASSUME NEW n \in Nat, NEW S \in SUBSET (1..n), S # {}, NEW h \in [S -> Nat]
    PROVE  \E k \in S : \A l \in S : h[l] <= h[k]
<1> DEFINE Bounded(m) == \E b \in Nat : \A k \in S : k <= m => h[k] <= b
           T == {m \in Nat : Bounded(m)}
<1>1. 0 \in T
  <2>1. \A k \in S : ~(k <= 0) OBVIOUS
  <2>2. QED BY <2>1
<1>2. ASSUME NEW m \in Nat, m \in T PROVE m + 1 \in T
  <2>1. PICK b \in Nat : \A k \in S : k <= m => h[k] <= b BY <1>2
  <2> DEFINE c == IF m + 1 \in S /\ h[m + 1] > b THEN h[m + 1] ELSE b
  <2>2. c \in Nat /\ b <= c /\ (m + 1 \in S => h[m + 1] <= c) OBVIOUS
  <2> HIDE DEF c
  <2>3. ASSUME NEW k \in S, k <= m + 1 PROVE h[k] <= c
    <3>1. CASE k = m + 1 BY <2>2, <3>1
    <3>2. CASE k # m + 1
      <4>1. k <= m BY <2>3, <3>2
      <4>2. h[k] <= b /\ h[k] \in Nat BY <2>1, <4>1
      <4>3. QED BY <2>2, <4>2
    <3>3. QED BY <3>1, <3>2
  <2>4. QED BY <2>2, <2>3
<1> HIDE DEF T
<1>3. n \in T BY <1>1, <1>2, SetInduction
<1>4. PICK b \in Nat : \A k \in S : h[k] <= b
  <2>1. \A k \in S : k <= n OBVIOUS
  <2>2. QED BY <1>3, <2>1 DEF T
<1> DEFINE values == {h[k] : k \in S}
<1>5. values \in SUBSET (0..b) /\ values # {}
  <2>1. \A k \in S : h[k] \in 0..b
    <3> TAKE k \in S
    <3>1. h[k] \in Nat /\ k <= n BY <1>4
    <3>2. QED BY <1>4, <3>1
  <2>2. QED BY <2>1
<1>6. Max(values) \in values /\ \A y \in values : Max(values) >= y BY <1>5, GreatestPosition
<1>7. PICK k \in S : h[k] = Max(values) BY <1>6
<1>8. \A l \in S : h[l] <= h[k]
  <2> TAKE l \in S
  <2>1. h[l] \in values BY <1>6
  <2>2. Max(values) >= h[l] BY <1>6, <2>1
  <2>3. QED BY <1>7, <2>2
<1>9. QED BY <1>8

------------------------------------------------------------------------------
\* Sets in an order

IsOrder(S, before) ==
    /\ before \in [S -> SUBSET S]
    /\ \A x \in S : x \notin before[x]
    /\ \A x, y \in S : x \in before[y] => before[x] \subseteq before[y]
    /\ \A x, y \in S : x = y \/ x \in before[y] \/ y \in before[x]

\* The rank of a member is its own, and every rank is some member's.
LEMMA RankOfMember ==
    ASSUME NEW S, IsFiniteSet(S), NEW before, IsOrder(S, before)
    PROVE  /\ Cardinality(S) \in Nat
           /\ \A x \in S : Cardinality(before[x]) \in 0..(Cardinality(S) - 1)
           /\ \A x, y \in S : x \in before[y] => Cardinality(before[x]) < Cardinality(before[y])
           /\ \A x, y \in S : Cardinality(before[x]) = Cardinality(before[y]) => x = y
           /\ \A n \in 1..Cardinality(S) : \E x \in S : Cardinality(before[x]) = n - 1
<1> DEFINE N == Cardinality(S)
           rank == [x \in S |-> Cardinality(before[x])]
<1> USE DEF IsOrder
<1>1. N \in Nat BY FS_CardinalityType
<1>2. ASSUME NEW x \in S
      PROVE  IsFiniteSet(before[x]) /\ rank[x] \in 0..(N - 1)
  <2>1. before[x] \in SUBSET (S \ {x}) OBVIOUS
  <2>2. IsFiniteSet(S \ {x}) /\ Cardinality(S \ {x}) = N - 1 BY FS_RemoveElement
  <2>3. IsFiniteSet(before[x]) /\ Cardinality(before[x]) <= N - 1 BY <2>1, <2>2, FS_Subset
  <2>4. Cardinality(before[x]) \in Nat BY <2>3, FS_CardinalityType
  <2>5. QED BY <1>1, <2>3, <2>4
<1>3. ASSUME NEW x \in S, NEW y \in S, x \in before[y]
      PROVE  rank[x] < rank[y]
  <2>1. before[x] \in SUBSET before[y] /\ before[x] # before[y] BY <1>3
  <2>2. Cardinality(before[x]) <= Cardinality(before[y]) /\ Cardinality(before[x]) # Cardinality(before[y])
    BY <1>2, <2>1, FS_Subset, Zenon
  <2>3. rank[x] \in Nat /\ rank[y] \in Nat BY <1>1, <1>2
  <2>4. QED BY <2>2, <2>3
<1>4. rank \in [S -> 0..(N - 1)] BY <1>2
<1> HIDE DEF rank
<1>5. \A x, y \in S : rank[x] = rank[y] => x = y
  <2> SUFFICES ASSUME NEW x \in S, NEW y \in S, rank[x] = rank[y], x # y PROVE FALSE OBVIOUS
  <2>1. x \in before[y] \/ y \in before[x] OBVIOUS
  <2>2. rank[x] \in Nat /\ rank[y] \in Nat BY <1>1, <1>4
  <2>3. QED BY <1>3, <2>1, <2>2
<1>6. IsFiniteSet(0..(N - 1)) /\ Cardinality(0..(N - 1)) = N
  <2>1. 0 \in Int /\ N - 1 \in Int /\ (IF 0 > N - 1 THEN 0 ELSE (N - 1) - 0 + 1) = N BY <1>1
  <2>2. QED BY <2>1, FS_Interval, Zenon
<1>7. rank \in Surjection(S, 0..(N - 1))
  <2>1. rank \in Injection(S, 0..(N - 1)) BY <1>4, <1>5, Fun_IsInj, Zenon
  <2>2. QED BY <1>6, <2>1, FS_Injection, Zenon
<1>8. ASSUME NEW n \in 1..N PROVE \E x \in S : rank[x] = n - 1
  <2>1. n - 1 \in 0..(N - 1) BY <1>1
  <2>2. \A k \in 0..(N - 1) : \E x \in S : rank[x] = k BY <1>7, Zenon DEF Surjection
  <2>3. QED BY <2>1, <2>2
<1>9. \A x \in S : rank[x] = Cardinality(before[x]) BY DEF rank
<1>10. \A x, y \in S : x \in before[y] => Cardinality(before[x]) < Cardinality(before[y])
  BY <1>3, <1>9
<1>11. \A x \in S : Cardinality(before[x]) \in 0..(N - 1) BY <1>2, <1>9
<1>12. \A x, y \in S : Cardinality(before[x]) = Cardinality(before[y]) => x = y BY <1>5, <1>9
<1>13. \A n \in 1..N : \E x \in S : Cardinality(before[x]) = n - 1 BY <1>8, <1>9
<1>14. QED BY <1>1, <1>10, <1>11, <1>12, <1>13

\* The members of a set in an order are the members, each once, in the order.
LEMMA OrderedMembers ==
    ASSUME NEW S, IsFiniteSet(S), NEW before, IsOrder(S, before)
    PROVE  /\ Cardinality(S) \in Nat
           /\ Ordered(S, before) \in [1..Cardinality(S) -> S]
           /\ \A x \in S : \E n \in 1..Cardinality(S) : Ordered(S, before)[n] = x
           /\ \A m, n \in 1..Cardinality(S) :
                m < n <=> Ordered(S, before)[m] \in before[Ordered(S, before)[n]]
<1> DEFINE Rank(x) == Cardinality(before[x])
           N == Cardinality(S)
           o == Ordered(S, before)
<1>1. /\ N \in Nat
      /\ \A x \in S : Rank(x) \in 0..(N - 1)
      /\ \A x, y \in S : x \in before[y] => Rank(x) < Rank(y)
      /\ \A x, y \in S : Rank(x) = Rank(y) => x = y
      /\ \A n \in 1..N : \E x \in S : Rank(x) = n - 1
  BY RankOfMember
<1>2. o = [n \in 1..N |-> CHOOSE x \in S : Rank(x) = n - 1]
  BY Zenon DEF Ordered
<1> HIDE DEF Rank, o
<1>3. \A n \in 1..N : o[n] \in S /\ Rank(o[n]) = n - 1
  BY <1>1, <1>2
<1>4. o \in [1..N -> S] BY <1>2, <1>3
<1>5. ASSUME NEW x \in S PROVE \E n \in 1..N : o[n] = x
  <2> DEFINE n == Rank(x) + 1
  <2>1. n \in 1..N /\ n - 1 = Rank(x) BY <1>1
  <2>2. o[n] \in S /\ Rank(o[n]) = Rank(x) BY <1>3, <2>1
  <2>3. QED BY <1>1, <2>1, <2>2, Zenon
<1>6. ASSUME NEW m \in 1..N, NEW n \in 1..N
      PROVE  m < n <=> o[m] \in before[o[n]]
  <2>1. m < n <=> Rank(o[m]) < Rank(o[n]) BY <1>1, <1>3
  <2>2. o[m] \in S /\ o[n] \in S BY <1>3
  <2>3. Rank(o[m]) \in Nat /\ Rank(o[n]) \in Nat BY <1>1, <2>2
  <2>4. o[m] \in before[o[n]] => Rank(o[m]) < Rank(o[n]) BY <1>1, <2>2
  <2>5. o[n] \in before[o[m]] => Rank(o[n]) < Rank(o[m]) BY <1>1, <2>2
  <2>6. o[m] = o[n] \/ o[m] \in before[o[n]] \/ o[n] \in before[o[m]] BY <2>2 DEF IsOrder
  <2>7. QED BY <2>1, <2>3, <2>4, <2>5, <2>6
<1>7. QED BY <1>1, <1>4, <1>5, <1>6 DEF o

LEMMA InOrderMembers ==
    ASSUME NEW S \in SUBSET Nat, IsFiniteSet(S)
    PROVE  /\ Cardinality(S) \in Nat
           /\ InOrder(S) \in [1..Cardinality(S) -> S]
           /\ ToSet(InOrder(S)) = S
           /\ \A m, n \in 1..Cardinality(S) : m < n <=> InOrder(S)[m] < InOrder(S)[n]
<1> DEFINE before == [k \in S |-> {j \in S : j < k}]
           o == Ordered(S, before)
<1>1. before \in [S -> SUBSET S] /\ \A x, y \in S : x \in before[y] <=> x < y
  OBVIOUS
<1>2. IsOrder(S, before)
  <2> HIDE DEF before
  <2>1. \A x, y \in S : x \in before[y] => before[x] \subseteq before[y]
    <3> SUFFICES ASSUME NEW x \in S, NEW y \in S, x \in before[y], NEW z \in before[x]
                 PROVE  z \in before[y]
      OBVIOUS
    <3>1. z \in S /\ z < x /\ x < y BY <1>1
    <3>2. x \in Nat /\ y \in Nat /\ z \in Nat BY <3>1
    <3>3. z < y BY <3>1, <3>2
    <3>4. QED BY <1>1, <3>1, <3>3
  <2>2. \A x, y \in S : x = y \/ x < y \/ y < x OBVIOUS
  <2>3. \A x \in S : ~(x < x) OBVIOUS
  <2>4. QED BY <1>1, <2>1, <2>2, <2>3 DEF IsOrder
<1> HIDE DEF before
<1>3. /\ Cardinality(S) \in Nat
      /\ o \in [1..Cardinality(S) -> S]
      /\ \A x \in S : \E n \in 1..Cardinality(S) : o[n] = x
      /\ \A m, n \in 1..Cardinality(S) : m < n <=> o[m] \in before[o[n]]
  BY <1>2, OrderedMembers
<1>4. InOrder(S) = o BY DEF InOrder, before
<1> HIDE DEF o
<1>5. ToSet(o) = S BY <1>3 DEF ToSet
<1>6. \A m, n \in 1..Cardinality(S) : m < n <=> o[m] < o[n] BY <1>1, <1>3
<1>7. QED BY <1>3, <1>4, <1>5, <1>6

LEMMA InOrderSequence ==
    ASSUME NEW S \in SUBSET Nat, IsFiniteSet(S)
    PROVE  InOrder(S) \in Seq(S) /\ Len(InOrder(S)) = Cardinality(S)
  BY InOrderMembers

LEMMA AtMembers ==
    ASSUME NEW s, NEW S \in SUBSET Nat, IsFiniteSet(S)
    PROVE  /\ Cardinality(S) \in Nat
           /\ DOMAIN At(s, S) = 1..Cardinality(S)
           /\ \A n \in 1..Cardinality(S) : InOrder(S)[n] \in S /\ At(s, S)[n] = s[InOrder(S)[n]]
           /\ ToSet(At(s, S)) = {s[k] : k \in S}
<1>1. /\ Cardinality(S) \in Nat /\ InOrder(S) \in [1..Cardinality(S) -> S]
      /\ ToSet(InOrder(S)) = S
  BY InOrderMembers
<1>2. At(s, S) = [n \in 1..Cardinality(S) |-> s[InOrder(S)[n]]]
  BY <1>1 DEF At, Along
<1>3. \A k \in S : \E n \in 1..Cardinality(S) : InOrder(S)[n] = k
  BY <1>1 DEF ToSet
<1>4. ToSet(At(s, S)) = {s[k] : k \in S}
  <2>1. ASSUME NEW e \in ToSet(At(s, S)) PROVE \E k \in S : e = s[k]
    <3>1. PICK n \in DOMAIN At(s, S) : e = At(s, S)[n] BY DEF ToSet
    <3>2. n \in 1..Cardinality(S) BY <1>2, <3>1
    <3>3. e = s[InOrder(S)[n]] /\ InOrder(S)[n] \in S BY <1>1, <1>2, <3>1, <3>2
    <3>4. QED BY <3>3
  <2>2. ASSUME NEW k \in S PROVE s[k] \in ToSet(At(s, S))
    <3>1. PICK n \in 1..Cardinality(S) : InOrder(S)[n] = k BY <1>3
    <3>2. n \in DOMAIN At(s, S) /\ At(s, S)[n] = s[k] BY <1>2, <3>1
    <3>3. QED BY <3>2 DEF ToSet
  <2>3. QED BY <2>1, <2>2
<1>5. QED BY <1>1, <1>2, <1>4

LEMMA AtSequence ==
    ASSUME NEW s, NEW S \in SUBSET Nat, IsFiniteSet(S), NEW V, \A k \in S : s[k] \in V
    PROVE  At(s, S) \in Seq(V) /\ Len(At(s, S)) = Cardinality(S)
<1>1. /\ Cardinality(S) \in Nat
      /\ InOrder(S) \in [1..Cardinality(S) -> S]
  BY InOrderMembers
<1>2. At(s, S) = [n \in 1..Cardinality(S) |-> s[InOrder(S)[n]]]
  BY <1>1 DEF At, Along
<1>3. At(s, S) \in [1..Cardinality(S) -> V] BY <1>1, <1>2
<1>4. QED BY <1>1, <1>3

LEMMA AtEmpty ==
    ASSUME NEW s, NEW S \in SUBSET Nat, IsFiniteSet(S)
    PROVE  At(s, S) = <<>> <=> S = {}
<1>1. Cardinality(S) \in Nat /\ DOMAIN At(s, S) = 1..Cardinality(S) BY AtMembers
<1>2. Cardinality(S) = 0 <=> S = {} BY FS_EmptySet
<1>3. At(s, S) \in Seq({s[k] : k \in S}) /\ Len(At(s, S)) = Cardinality(S)
  BY AtSequence
<1>4. QED BY <1>1, <1>2, <1>3

\* The places of a sequence are a finite set of naturals.
LEMMA PlacesOfSequence ==
    ASSUME NEW V, NEW s \in Seq(V)
    PROVE  /\ DOMAIN s \in SUBSET Nat
           /\ IsFiniteSet(DOMAIN s)
           /\ \A S \in SUBSET DOMAIN s : S \in SUBSET Nat /\ IsFiniteSet(S)
<1>1. DOMAIN s = 1..Len(s) /\ Len(s) \in Nat OBVIOUS
<1>2. IsFiniteSet(1..Len(s)) BY <1>1, FS_Interval
<1>3. \A S \in SUBSET DOMAIN s : IsFiniteSet(S) BY <1>1, <1>2, FS_Subset
<1>4. QED BY <1>1, <1>2, <1>3

\* The first place of a set is the first of its order.
LEMMA FirstInOrder ==
    ASSUME NEW S \in SUBSET Nat, IsFiniteSet(S), S # {}
    PROVE  1 \in 1..Cardinality(S) /\ \A k \in S : InOrder(S)[1] <= k
<1>1. /\ Cardinality(S) \in Nat
      /\ InOrder(S) \in [1..Cardinality(S) -> S]
      /\ ToSet(InOrder(S)) = S
      /\ \A m, n \in 1..Cardinality(S) : m < n <=> InOrder(S)[m] < InOrder(S)[n]
  BY InOrderMembers
<1>2. Cardinality(S) # 0 BY FS_EmptySet
<1>3. \A k \in S : \E n \in 1..Cardinality(S) : InOrder(S)[n] = k BY <1>1 DEF ToSet
<1>4. ASSUME NEW k \in S PROVE InOrder(S)[1] <= k
  <2>1. PICK n \in 1..Cardinality(S) : InOrder(S)[n] = k BY <1>3
  <2>2. n = 1 \/ 1 < n BY <1>1
  <2>3. 1 \in 1..Cardinality(S) BY <1>1, <1>2
  <2>4. InOrder(S)[1] \in Nat /\ k \in Nat BY <1>1, <2>3
  <2>5. QED BY <1>1, <2>1, <2>2, <2>3, <2>4
<1>5. QED BY <1>1, <1>2, <1>4

------------------------------------------------------------------------------
\* Flattening

\* The function FlattenSeq follows, stated without its recursion.
IsFlattening(f, seqs, n) ==
    /\ f = [i \in 1..n |-> f[i]]
    /\ \A i \in 1..n : f[i] = IF i = 1 THEN seqs[i] ELSE f[i - 1] \o seqs[i]

LEMMA FlatteningExists ==
    ASSUME NEW seqs, NEW n \in Nat
    PROVE  \E f : IsFlattening(f, seqs, n)
<1> DEFINE S == {k \in Nat : \E f : IsFlattening(f, seqs, k)}
<1>1. 0 \in S
  <2>1. IsFlattening([i \in 1..0 |-> i], seqs, 0) BY DEF IsFlattening
  <2>2. QED BY <2>1
<1>2. ASSUME NEW k \in Nat, k \in S PROVE k + 1 \in S
  <2>1. PICK f : IsFlattening(f, seqs, k) BY <1>2
  <2> DEFINE next == IF k = 0 THEN seqs[k + 1] ELSE f[k] \o seqs[k + 1]
             g == [i \in 1..(k + 1) |-> IF i = k + 1 THEN next ELSE f[i]]
  <2>2. g[k + 1] = next OBVIOUS
  <2>3. \A i \in 1..k : g[i] = f[i] OBVIOUS
  <2>4. g = [i \in 1..(k + 1) |-> g[i]] OBVIOUS
  <2> HIDE DEF g
  <2>5. ASSUME NEW i \in 1..(k + 1)
        PROVE  g[i] = IF i = 1 THEN seqs[i] ELSE g[i - 1] \o seqs[i]
    <3>1. CASE i = k + 1
      <4>1. i # 1 => i - 1 = k /\ k \in 1..k BY <3>1
      <4>2. g[i] = IF i = 1 THEN seqs[i] ELSE f[i - 1] \o seqs[i] BY <2>2, <3>1, <4>1
      <4>3. i # 1 => g[i - 1] = f[i - 1] BY <2>3, <4>1
      <4>4. QED BY <4>2, <4>3
    <3>2. CASE i # k + 1
      <4>1. i \in 1..k /\ (i # 1 => i - 1 \in 1..k) BY <3>2
      <4>2. f[i] = IF i = 1 THEN seqs[i] ELSE f[i - 1] \o seqs[i] BY <2>1, <4>1 DEF IsFlattening
      <4>3. g[i] = f[i] /\ (i # 1 => g[i - 1] = f[i - 1]) BY <2>3, <4>1
      <4>4. QED BY <4>2, <4>3
    <3>3. QED BY <3>1, <3>2
  <2>6. IsFlattening(g, seqs, k + 1) BY <2>4, <2>5, Zenon DEF IsFlattening
  <2>7. QED BY <2>6
<1> HIDE DEF S
<1>3. n \in S BY <1>1, <1>2, SetInduction
<1>4. QED BY <1>3 DEF S

LEMMA FlattenSteps ==
    ASSUME NEW V, NEW seqs \in Seq(Seq(V)), seqs # <<>>
    PROVE  \E f : IsFlattening(f, seqs, Len(seqs)) /\ FlattenSeq(seqs) = f[Len(seqs)]
<1> DEFINE N == Len(seqs)
           Step(g) == [i \in 1..N |-> IF i = 1 THEN seqs[i] ELSE g[i - 1] \o seqs[i]]
           flatten == CHOOSE g : g = Step(g)
<1>1. N \in Nat /\ N # 0 OBVIOUS
<1>2. PICK f : IsFlattening(f, seqs, N) BY <1>1, FlatteningExists
<1>3. f = Step(f)
  <2>1. f = [i \in 1..N |-> f[i]] /\ \A i \in 1..N : f[i] = Step(f)[i] BY <1>2, Zenon DEF IsFlattening
  <2>2. [i \in 1..N |-> f[i]] = Step(f) BY <2>1, Zenon
  <2>3. QED BY <2>1, <2>2, Zenon
<1>4. flatten = Step(flatten)
  <2> HIDE DEF Step
  <2>1. QED BY <1>3, Zenon
<1>5. FlattenSeq(seqs) = flatten[N] BY <1>1, Zenon DEF FlattenSeq
<1> HIDE DEF flatten
<1>6. IsFlattening(flatten, seqs, N)
  <2>1. \A i \in 1..N : Step(flatten)[i] = IF i = 1 THEN seqs[i] ELSE flatten[i - 1] \o seqs[i] BY Zenon
  <2>2. \A i \in 1..N : flatten[i] = Step(flatten)[i]
    <3> HIDE DEF Step
    <3>1. QED BY <1>4, Zenon
  <2>3. [i \in 1..N |-> flatten[i]] = Step(flatten) BY <2>1, <2>2, Zenon
  <2>4. flatten = [i \in 1..N |-> flatten[i]]
    <3> HIDE DEF Step
    <3>1. QED BY <1>4, <2>3, Zenon
  <2>5. QED BY <2>1, <2>2, <2>4, Zenon DEF IsFlattening
<1>7. QED BY <1>5, <1>6

\* Every place of a flattened sequence is a place of one part, and no two the
\* same.
IsUnflattening(flat, seqs, n, part, place) ==
    /\ \A p \in DOMAIN flat : /\ part[p] \in 1..n /\ place[p] \in DOMAIN seqs[part[p]]
                              /\ flat[p] = seqs[part[p]][place[p]]
    /\ \A p, q \in DOMAIN flat : part[p] = part[q] /\ place[p] = place[q] => p = q
    /\ \A k \in 1..n : \A m \in DOMAIN seqs[k] : \E p \in DOMAIN flat : part[p] = k /\ place[p] = m

LEMMA UnflattenFirst ==
    ASSUME NEW V, NEW seqs, seqs[1] \in Seq(V)
    PROVE  \E part, place : IsUnflattening(seqs[1], seqs, 1, part, place)
<1> DEFINE part == [p \in DOMAIN seqs[1] |-> 1]
           place == [p \in DOMAIN seqs[1] |-> p]
<1>1. \A p \in DOMAIN seqs[1] : part[p] = 1 /\ place[p] = p OBVIOUS
<1> HIDE DEF part, place
<1>2. \A k \in 1..1 : k = 1 OBVIOUS
<1>3. IsUnflattening(seqs[1], seqs, 1, part, place) BY <1>1, <1>2 DEF IsUnflattening
<1>4. QED BY <1>3

LEMMA UnflattenNext ==
    ASSUME NEW V, NEW seqs, NEW flat \in Seq(V), NEW n \in Nat, seqs[n + 1] \in Seq(V),
           NEW part, NEW place, IsUnflattening(flat, seqs, n, part, place)
    PROVE  /\ flat \o seqs[n + 1] \in Seq(V)
           /\ \E part2, place2 : IsUnflattening(flat \o seqs[n + 1], seqs, n + 1, part2, place2)
<1> DEFINE L == Len(flat)
           next == seqs[n + 1]
           whole == flat \o next
           part2 == [p \in DOMAIN whole |-> IF p <= L THEN part[p] ELSE n + 1]
           place2 == [p \in DOMAIN whole |-> IF p <= L THEN place[p] ELSE p - L]
<1>1. /\ whole \in Seq(V) /\ L \in Nat /\ DOMAIN flat = 1..L /\ DOMAIN next = 1..Len(next) /\ Len(next) \in Nat
      /\ DOMAIN whole = 1..(L + Len(next))
      /\ \A p \in DOMAIN whole : whole[p] = IF p <= L THEN flat[p] ELSE next[p - L]
  OBVIOUS
<1>2. \A p \in DOMAIN whole : /\ part2[p] = IF p <= L THEN part[p] ELSE n + 1
                              /\ place2[p] = IF p <= L THEN place[p] ELSE p - L
  OBVIOUS
<1> HIDE DEF part2, place2, whole
<1>3. \A p \in DOMAIN whole : IF p <= L THEN p \in DOMAIN flat ELSE p - L \in DOMAIN next
  BY <1>1
<1>4. \A p \in DOMAIN flat : part[p] \in 1..n BY DEF IsUnflattening
<1>5. ASSUME NEW p \in DOMAIN whole
      PROVE  /\ part2[p] \in 1..(n + 1) /\ place2[p] \in DOMAIN seqs[part2[p]]
             /\ whole[p] = seqs[part2[p]][place2[p]]
  <2>1. CASE p <= L
    <3>1. p \in DOMAIN flat /\ part2[p] = part[p] /\ place2[p] = place[p] /\ whole[p] = flat[p]
      BY <1>1, <1>2, <1>3, <2>1
    <3>2. part[p] \in 1..n /\ place[p] \in DOMAIN seqs[part[p]] /\ flat[p] = seqs[part[p]][place[p]]
      BY <3>1 DEF IsUnflattening
    <3>3. QED BY <3>1, <3>2
  <2>2. CASE ~(p <= L) BY <1>1, <1>2, <1>3, <2>2
  <2>3. QED BY <2>1, <2>2
<1>6. ASSUME NEW p \in DOMAIN whole, NEW q \in DOMAIN whole, part2[p] = part2[q], place2[p] = place2[q]
      PROVE  p = q
  <2>1. (p <= L) <=> (q <= L)
    <3>1. \A r \in DOMAIN whole : r <= L <=> part2[r] # n + 1 BY <1>2, <1>3, <1>4
    <3>2. QED BY <1>6, <3>1
  <2>2. CASE p <= L
    <3>1. p \in DOMAIN flat /\ q \in DOMAIN flat /\ part[p] = part[q] /\ place[p] = place[q]
      BY <1>2, <1>3, <1>6, <2>1, <2>2
    <3>2. QED BY <3>1 DEF IsUnflattening
  <2>3. CASE ~(p <= L)
    <3>1. p - L = q - L BY <1>2, <1>6, <2>1, <2>3
    <3>2. QED BY <1>1, <3>1
  <2>4. QED BY <2>2, <2>3
<1>7. ASSUME NEW k \in 1..(n + 1), NEW m \in DOMAIN seqs[k]
      PROVE  \E p \in DOMAIN whole : part2[p] = k /\ place2[p] = m
  <2>1. CASE k = n + 1
    <3>1. L + m \in DOMAIN whole /\ ~(L + m <= L) /\ (L + m) - L = m BY <1>1, <1>7, <2>1
    <3>2. QED BY <1>2, <2>1, <3>1
  <2>2. CASE k # n + 1
    <3>1. k \in 1..n BY <2>2
    <3>2. PICK p \in DOMAIN flat : part[p] = k /\ place[p] = m BY <1>7, <3>1 DEF IsUnflattening
    <3>3. p \in DOMAIN whole /\ p <= L BY <1>1
    <3>4. QED BY <1>2, <3>2, <3>3
  <2>3. QED BY <2>1, <2>2
<1>8. IsUnflattening(whole, seqs, n + 1, part2, place2) BY <1>5, <1>6, <1>7 DEF IsUnflattening
<1>9. QED BY <1>1, <1>8 DEF whole

\* A flattened sequence has the elements of its parts, place by place.
LEMMA FlattenPlaces ==
    ASSUME NEW V, NEW seqs \in Seq(Seq(V))
    PROVE  /\ FlattenSeq(seqs) \in Seq(V)
           /\ \E part, place : IsUnflattening(FlattenSeq(seqs), seqs, Len(seqs), part, place)
<1>1. CASE seqs = <<>>
  <2>1. FlattenSeq(seqs) = <<>> /\ Len(seqs) = 0 BY <1>1 DEF FlattenSeq
  <2>2. IsUnflattening(<<>>, seqs, 0, <<>>, <<>>) BY DEF IsUnflattening
  <2>3. QED BY <2>1, <2>2
<1>2. CASE seqs # <<>>
  <2> DEFINE N == Len(seqs)
  <2>1. N \in Nat /\ N # 0 /\ \A i \in 1..N : seqs[i] \in Seq(V) BY <1>2
  <2>2. PICK f : IsFlattening(f, seqs, N) /\ FlattenSeq(seqs) = f[N] BY <1>2, FlattenSteps
  <2>3. /\ \A i \in 1..N : f[i] = IF i = 1 THEN seqs[i] ELSE f[i - 1] \o seqs[i]
        /\ FlattenSeq(seqs) = f[N]
    BY <2>2, Zenon DEF IsFlattening
  <2> DEFINE S == {i \in Nat : i + 1 \in 1..N =>
                      /\ f[i + 1] \in Seq(V)
                      /\ \E part, place : IsUnflattening(f[i + 1], seqs, i + 1, part, place)}
  <2>4. 0 \in S
    <3>1. 1 \in 1..N /\ f[1] = seqs[1] BY <2>1, <2>3
    <3>2. seqs[1] \in Seq(V) /\ \E part, place : IsUnflattening(seqs[1], seqs, 1, part, place)
      BY <2>1, <3>1, UnflattenFirst
    <3>3. 0 + 1 = 1 /\ 0 \in Nat OBVIOUS
    <3>4. QED BY <3>1, <3>2, <3>3
  <2>5. ASSUME NEW i \in Nat, i \in S PROVE i + 1 \in S
    <3> SUFFICES ASSUME (i + 1) + 1 \in 1..N
                 PROVE  /\ f[(i + 1) + 1] \in Seq(V)
                        /\ \E part, place : IsUnflattening(f[(i + 1) + 1], seqs, (i + 1) + 1, part, place)
      OBVIOUS
    <3>1. i + 1 \in 1..N /\ (i + 1) + 1 # 1 /\ ((i + 1) + 1) - 1 = i + 1 BY <2>1
    <3>2. f[i + 1] \in Seq(V) BY <2>5, <3>1
    <3>3. PICK part, place : IsUnflattening(f[i + 1], seqs, i + 1, part, place) BY <2>5, <3>1
    <3>4. f[(i + 1) + 1] = f[i + 1] \o seqs[(i + 1) + 1] BY <2>3, <3>1
    <3>5. seqs[(i + 1) + 1] \in Seq(V) BY <2>1
    <3>6. QED BY <3>2, <3>3, <3>4, <3>5, UnflattenNext
  <2> HIDE DEF S
  <2>6. N - 1 \in Nat BY <2>1
  <2>7. Nat \subseteq S BY <2>4, <2>5, SetInduction
  <2>8. (N - 1) + 1 = N /\ N \in 1..N BY <2>1
  <2>9. QED BY <2>3, <2>6, <2>7, <2>8 DEF S
<1>3. QED BY <1>1, <1>2

LEMMA FlattenElements ==
    ASSUME NEW V, NEW seqs \in Seq(Seq(V))
    PROVE  ToSet(FlattenSeq(seqs)) = UNION {ToSet(seqs[k]) : k \in DOMAIN seqs}
<1>1. PICK part, place : IsUnflattening(FlattenSeq(seqs), seqs, Len(seqs), part, place)
  BY FlattenPlaces
<1>2. DOMAIN seqs = 1..Len(seqs) OBVIOUS
<1>3. ASSUME NEW e \in ToSet(FlattenSeq(seqs)) PROVE \E k \in DOMAIN seqs : e \in ToSet(seqs[k])
  <2>1. PICK p \in DOMAIN FlattenSeq(seqs) : e = FlattenSeq(seqs)[p] BY <1>3 DEF ToSet
  <2>2. part[p] \in DOMAIN seqs /\ place[p] \in DOMAIN seqs[part[p]] /\ e = seqs[part[p]][place[p]]
    BY <1>1, <1>2, <2>1 DEF IsUnflattening
  <2>3. QED BY <2>2 DEF ToSet
<1>4. ASSUME NEW k \in DOMAIN seqs, NEW e \in ToSet(seqs[k]) PROVE e \in ToSet(FlattenSeq(seqs))
  <2>1. PICK m \in DOMAIN seqs[k] : e = seqs[k][m] BY <1>4 DEF ToSet
  <2>2. PICK p \in DOMAIN FlattenSeq(seqs) : part[p] = k /\ place[p] = m
    BY <1>1, <1>2 DEF IsUnflattening
  <2>3. FlattenSeq(seqs)[p] = seqs[k][m] BY <1>1, <2>2 DEF IsUnflattening
  <2>4. QED BY <2>1, <2>3 DEF ToSet
<1>5. QED BY <1>3, <1>4

=================================================================================
