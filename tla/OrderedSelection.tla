-------------------------- MODULE OrderedSelection --------------------------
(***************************************************************************)
(* What the code writes as a list comprehension with a condition, and as   *)
(* sorted(...): the members of a finite set in an order.  Both are stated  *)
(* by the rank of a member, so that they can be reasoned about without     *)
(* following a loop.                                                       *)
(***************************************************************************)
EXTENDS Naturals, Sequences, FiniteSets

\* The members of S in an order, where before[x] are the ones before x.
Ordered(S, before) ==
    [n \in 1..Cardinality(S) |-> CHOOSE x \in S : Cardinality(before[x]) = n - 1]

\* A set of places from the first to the last.
InOrder(S) == Ordered(S, [k \in S |-> {j \in S : j < k}])

\* The elements of a sequence along a sequence of its places, and at a set
\* of them.
Along(s, places) == [n \in DOMAIN places |-> s[places[n]]]
At(s, S) == Along(s, InOrder(S))
=============================================================================
