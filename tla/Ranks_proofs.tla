----------------------------- MODULE Ranks_proofs -----------------------------
(***************************************************************************)
(* What the lists of Ranks are: a sort lists every element of a finite set *)
(* once and in order, a filter leaves every position that stays in order.  *)
(***************************************************************************)
EXTENDS Ranks, FiniteSetTheorems, SequenceTheorems, TLAPS

-----------------------------------------------------------------------------
(* Sorting                                                                 *)

\* A strict order of a set in which any two elements are comparable.
Orders(R, S) ==
  /\ \A x \in S : <<x, x>> \notin R
  /\ \A x, y \in S : x = y \/ <<x, y>> \in R \/ <<y, x>> \in R
  /\ \A x, y, z \in S : <<x, y>> \in R /\ <<y, z>> \in R => <<x, z>> \in R

\* The place of an element is the number of those before it; no two elements
\* have the same, so every place is taken.
LEMMA ListedInOrder ==
  ASSUME NEW S, IsFiniteSet(S), NEW R, Orders(R, S)
  PROVE  /\ Cardinality(S) \in Nat
         /\ Listed(S, R) \in [1..Cardinality(S) -> S]
         /\ \A i, k \in 1..Cardinality(S) : i < k => <<Listed(S, R)[i], Listed(S, R)[k]>> \in R
         /\ \A i, k \in 1..Cardinality(S) : Listed(S, R)[i] = Listed(S, R)[k] => i = k
         /\ \A x \in S : \E i \in 1..Cardinality(S) : Listed(S, R)[i] = x
<1> DEFINE m == Cardinality(S)
           before(x) == {y \in S : <<y, x>> \in R}
           place == [x \in S |-> Cardinality(before(x)) + 1]
<1>1. m \in Nat
  BY FS_CardinalityType
<1>2. /\ \A x \in S : <<x, x>> \notin R
      /\ \A x, y \in S : x = y \/ <<x, y>> \in R \/ <<y, x>> \in R
      /\ \A x, y, z \in S : <<x, y>> \in R /\ <<y, z>> \in R => <<x, z>> \in R
  BY DEF Orders
<1>3. ASSUME NEW x \in S
      PROVE  /\ IsFiniteSet(before(x)) /\ Cardinality(before(x)) \in Nat
             /\ Cardinality(before(x)) + 1 = Cardinality(before(x) \cup {x})
             /\ Cardinality(before(x) \cup {x}) <= m
  <2>1. before(x) \in SUBSET S /\ before(x) \cup {x} \in SUBSET S /\ x \notin before(x)
    BY <1>2
  <2> HIDE DEF before
  <2> QED
    BY <1>1, <2>1, FS_Subset, FS_CardinalityType, FS_AddElement
<1>4. ASSUME NEW x \in S, NEW y \in S, <<x, y>> \in R
      PROVE  Cardinality(before(x)) < Cardinality(before(y))
  <2>1. before(x) \cup {x} \in SUBSET before(y)
    BY <1>2, <1>4
  <2>2. Cardinality(before(x) \cup {x}) <= Cardinality(before(y))
    BY <1>3, <2>1, FS_Subset
  <2> HIDE DEF before
  <2>3. /\ Cardinality(before(x)) \in Nat /\ Cardinality(before(y)) \in Nat
        /\ Cardinality(before(x)) + 1 = Cardinality(before(x) \cup {x})
    BY <1>3
  <2> QED
    BY <2>2, <2>3
<1> HIDE DEF before, m
<1>5. /\ place \in [S -> 1..m]
      /\ \A x \in S : place[x] = Cardinality(before(x)) + 1
      /\ \A x, y \in S : <<x, y>> \in R => place[x] < place[y]
  <2>1. \A x \in S : place[x] = Cardinality(before(x)) + 1
    OBVIOUS
  <2>2. ASSUME NEW x \in S
        PROVE  place[x] \in 1..m
    <3> DEFINE c == Cardinality(before(x))
    <3>1. c \in Nat /\ c + 1 <= m /\ place[x] = c + 1
      BY <1>3, <2>1
    <3> HIDE DEF c, place
    <3> QED
      BY <1>1, <3>1
  <2>3. \A x, y \in S : <<x, y>> \in R => place[x] < place[y]
    <3> SUFFICES ASSUME NEW x \in S, NEW y \in S, <<x, y>> \in R
                 PROVE  place[x] < place[y]
      OBVIOUS
    <3>1. Cardinality(before(x)) < Cardinality(before(y))
      BY <1>4
    <3>2. Cardinality(before(x)) \in Nat /\ Cardinality(before(y)) \in Nat
      BY <1>3
    <3> QED
      BY <2>1, <3>1, <3>2
  <2> QED
    BY <2>1, <2>2, <2>3
<1> HIDE DEF place
<1>6. \A x, y \in S : place[x] = place[y] => x = y
  <2> SUFFICES ASSUME NEW x \in S, NEW y \in S, place[x] = place[y]
               PROVE  x = y
    OBVIOUS
  <2>1. ~(place[x] < place[y]) /\ ~(place[y] < place[x])
    BY <1>5
  <2> QED
    BY <1>2, <1>5, <2>1
<1>7. place \in Surjection(S, 1..m)
  <2>1. place \in Injection(S, 1..m)
    BY <1>5, <1>6 DEF Injection, IsInjective
  <2>2. IsFiniteSet(1..m) /\ Cardinality(1..m) = m
    BY <1>1, FS_Interval
  <2> QED
    BY <2>1, <2>2, FS_Injection DEF m
<1> DEFINE list == Listed(S, R)
<1>8. ASSUME NEW k \in 1..m
      PROVE  list[k] \in S /\ place[list[k]] = k
  <2>1. PICK x \in S : place[x] = k
    BY <1>7 DEF Surjection
  <2>2. \A y \in S : place[y] = k <=> Cardinality(before(y)) = k - 1
    <3> SUFFICES ASSUME NEW y \in S
                 PROVE  place[y] = k <=> Cardinality(before(y)) = k - 1
      OBVIOUS
    <3>1. place[y] = Cardinality(before(y)) + 1 /\ Cardinality(before(y)) \in Nat
      BY <1>3, <1>5
    <3> QED
      BY <3>1
  <2>3. list[k] = CHOOSE y \in S : Cardinality(before(y)) = k - 1
    BY DEF Listed, before, m
  <2> HIDE DEF list
  <2> QED
    BY <2>1, <2>2, <2>3
<1>9. list \in [1..m -> S]
  <2> DEFINE at(k) == CHOOSE x \in S : Cardinality({y \in S : <<y, x>> \in R}) = k - 1
  <2>1. list = [k \in 1..m |-> at(k)]
    BY DEF Listed, m
  <2> HIDE DEF list, at
  <2> QED
    BY <1>8, <2>1
<1> HIDE DEF list
<1>10. ASSUME NEW i \in 1..m, NEW k \in 1..m, i < k
       PROVE  <<list[i], list[k]>> \in R
  <2>1. /\ list[i] \in S /\ list[k] \in S /\ list[i] # list[k]
        /\ ~(place[list[k]] < place[list[i]])
    BY <1>8, <1>10
  <2> QED
    BY <1>2, <1>5, <2>1
<1>11. \A i, k \in 1..m : list[i] = list[k] => i = k
  BY <1>8
<1>12. \A x \in S : \E i \in 1..m : list[i] = x
  BY <1>5, <1>6, <1>8
<1> QED
  BY <1>1, <1>9, <1>10, <1>11, <1>12 DEF list, m

-----------------------------------------------------------------------------
(* Filtering                                                               *)

\* The smaller of two positions is before the other.
Smaller(S) == {p \in S \X S : p[1] < p[2]}

\* Which is an order of any set of positions.
LEMMA SmallerOrders ==
  ASSUME NEW S \in SUBSET Int
  PROVE  Orders(Smaller(S), S)
<1>1. \A i, k \in S : <<i, k>> \in Smaller(S) <=> i < k
  BY DEF Smaller
<1>2. S \subseteq Int
  OBVIOUS
<1> QED
  BY <1>1, <1>2 DEF Orders

\* at gives the positions that stay, each once and in their order.
Places(at, seq, S) ==
  /\ at \in [1..Cardinality(S) -> S]
  /\ \A i, k \in 1..Cardinality(S) : i < k => at[i] < at[k]
  /\ \A i, k \in 1..Cardinality(S) : at[i] = at[k] => i = k
  /\ \A x \in S : \E i \in 1..Cardinality(S) : at[i] = x
  /\ \A k \in 1..Cardinality(S) : Left(seq, S)[k] = seq[at[k]]

\* What is left are the elements at those positions.
LEMMA LeftInOrder ==
  ASSUME NEW T, NEW seq \in Seq(T), NEW S \in SUBSET (1..Len(seq))
  PROVE  /\ IsFiniteSet(S) /\ Cardinality(S) \in Nat /\ Cardinality(S) <= Len(seq)
         /\ Left(seq, S) \in Seq(T) /\ Len(Left(seq, S)) = Cardinality(S)
         /\ \E at : Places(at, seq, S)
<1> DEFINE n == Len(seq)
           m == Cardinality(S)
           at == Listed(S, Smaller(S))
<1>1. n \in Nat /\ S \in SUBSET (1..n) /\ S \in SUBSET Int
  OBVIOUS
<1>2. IsFiniteSet(S) /\ m \in Nat /\ m <= n
  <2> HIDE DEF n, m
  <2>1. IsFiniteSet(1..n) /\ Cardinality(1..n) = n
    BY <1>1, FS_Interval
  <2> QED
    BY <1>1, <2>1, FS_Subset, FS_CardinalityType DEF m
<1>3. /\ at \in [1..m -> S]
      /\ \A i, k \in 1..m : i < k => <<at[i], at[k]>> \in Smaller(S)
      /\ \A i, k \in 1..m : at[i] = at[k] => i = k
      /\ \A x \in S : \E i \in 1..m : at[i] = x
  BY <1>1, <1>2, SmallerOrders, ListedInOrder
<1>4. Left(seq, S) = [k \in 1..m |-> seq[at[k]]]
  BY DEF Left, Smaller
<1>5. \A i \in S : seq[i] \in T
  BY <1>1
<1> HIDE DEF n, m, at
<1>6. [k \in 1..m |-> seq[at[k]]] \in Seq(T) /\ Len([k \in 1..m |-> seq[at[k]]]) = m
  <2> DEFINE left == [k \in 1..m |-> seq[at[k]]]
  <2>1. left \in [1..m -> T]
    BY <1>3, <1>5
  <2> HIDE DEF left
  <2> QED
    BY <1>2, <2>1 DEF left
<1>7. \A i, k \in 1..m : i < k => at[i] < at[k]
  BY <1>3 DEF Smaller
<1>8. \A k \in 1..m : Left(seq, S)[k] = seq[at[k]]
  BY <1>4
<1>9. Places(at, seq, S)
  BY <1>3, <1>7, <1>8 DEF Places, m
<1> QED
  BY <1>2, <1>4, <1>6, <1>9 DEF n, m

\* So every position that stays has one of its own in what is left.
LEMMA LeftKeeps ==
  ASSUME NEW T, NEW seq \in Seq(T), NEW S \in SUBSET (1..Len(seq))
  PROVE  /\ Left(seq, S) \in Seq(T)
         /\ Cardinality(S) \in Nat /\ Cardinality(S) <= Len(seq)
         /\ Len(Left(seq, S)) = Cardinality(S)
         /\ \E place \in Injection(S, 1..Cardinality(S)) :
              \A i \in S : Left(seq, S)[place[i]] = seq[i]
<1> DEFINE m == Cardinality(S)
<1>1. PICK at : Places(at, seq, S)
  BY LeftInOrder
<1> DEFINE place == [x \in S |-> CHOOSE i \in 1..m : at[i] = x]
<1>2. \A x \in S : place[x] \in 1..m /\ at[place[x]] = x
  BY <1>1 DEF Places
<1>3. place \in [S -> 1..m]
  BY <1>2
<1>4. \A k \in 1..m : Left(seq, S)[k] = seq[at[k]]
  BY <1>1 DEF Places
<1> HIDE DEF place, m
<1>5. place \in Injection(S, 1..m)
  BY <1>2, <1>3 DEF Injection, IsInjective
<1>6. \A i \in S : Left(seq, S)[place[i]] = seq[i]
  BY <1>2, <1>4
<1> QED
  BY <1>5, <1>6, LeftInOrder DEF m

\* The positions up to n stay where they are.
LEMMA LeftOfPrefix ==
  ASSUME NEW seq, NEW n \in Nat
  PROVE  Left(seq, 1..n) = [k \in 1..n |-> seq[k]]
<1> DEFINE S == 1..n
           at == Listed(S, Smaller(S))
<1>1. Cardinality(S) = n
  BY FS_Interval
<1>2. ASSUME NEW i \in S
      PROVE  Cardinality({j \in S : <<j, i>> \in Smaller(S)}) = i - 1
  <2>1. {j \in S : <<j, i>> \in Smaller(S)} = 1..(i - 1)
    BY DEF Smaller
  <2>2. Cardinality(1..(i - 1)) = i - 1
    <3>1. i - 1 \in Nat
      OBVIOUS
    <3> QED
      BY <3>1, FS_Interval
  <2> QED
    BY <2>1, <2>2
<1>3. ASSUME NEW k \in S
      PROVE  at[k] = k
  <2>1. at[k] = CHOOSE x \in S : Cardinality({y \in S : <<y, x>> \in Smaller(S)}) = k - 1
    BY <1>1 DEF Listed
  <2>2. \A x \in S : Cardinality({y \in S : <<y, x>> \in Smaller(S)}) = k - 1 <=> x = k
    BY <1>2
  <2> HIDE DEF at, S
  <2> QED
    BY <2>1, <2>2
<1>4. Left(seq, S) = [k \in S |-> seq[at[k]]]
  BY <1>1 DEF Left, Smaller
<1> HIDE DEF at
<1> QED
  BY <1>3, <1>4
=============================================================================
