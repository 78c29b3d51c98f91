-------------------------------- MODULE Ranks --------------------------------
(***************************************************************************)
(* Lists by rank.  A sort puts each element at the place that is one more  *)
(* than the number of those before it; a filter keeps the order of what    *)
(* stays.  Said like this, they can be reasoned about without induction.   *)
(***************************************************************************)
EXTENDS Integers, Sequences, FiniteSets

\* The elements of S in the strict order R, a set of pairs.
Listed(S, R) ==
  [k \in 1..Cardinality(S) |-> CHOOSE x \in S : Cardinality({y \in S : <<y, x>> \in R}) = k - 1]

\* The same with the order said as a relation of two elements.
Sorted(S, Before(_, _)) == Listed(S, {p \in S \X S : Before(p[1], p[2])})

\* The best n of a ranking, or all of it.
Best(seq, n) == SubSeq(seq, 1, IF Len(seq) < n THEN Len(seq) ELSE n)

\* What is left of a sequence, in its order, when only the positions in S stay.
Left(seq, S) ==
  LET at == Listed(S, {p \in S \X S : p[1] < p[2]}) IN [k \in 1..Cardinality(S) |-> seq[at[k]]]

\* The elements that pass a test.
Keep(seq, Test(_)) == Left(seq, {i \in DOMAIN seq : Test(seq[i])})
=============================================================================
