------------------------------ MODULE Sorting ------------------------------
(***************************************************************************)
(* std::sort, as the place each element gets, and what is left of a vector *)
(* when some elements are dropped.  Unlike SortSeq and SelectSeq of the    *)
(* library these have definitions the proofs can expand.                   *)
(***************************************************************************)
EXTENDS Integers, FiniteSets, Sequences

\* A set of numbers in ascending order.
Ascending(S) ==
  [k \in 1 .. Cardinality(S) |-> CHOOSE x \in S : Cardinality({y \in S : y <= x}) = k]

\* The elements of s at some positions, in order.
Subsequence(s, positions) ==
  [k \in 1 .. Cardinality(positions) |-> s[Ascending(positions)[k]]]

\* The place of the element at i: equal elements stay in their order, which
\* the code leaves open and nothing depends on.
Place(s, Less(_, _), i) ==
  Cardinality({j \in DOMAIN s :
                 Less(s[j], s[i]) \/ (~Less(s[i], s[j]) /\ j <= i)})

Sorted(s, Less(_, _)) ==
  LET place == [i \in DOMAIN s |-> Place(s, Less, i)]
  IN  [k \in DOMAIN s |-> s[CHOOSE i \in DOMAIN s : place[i] = k]]
=============================================================================
