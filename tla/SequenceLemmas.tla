--------------------------- MODULE SequenceLemmas ---------------------------
(***************************************************************************)
(* What sorting gives, for any finite set and any strict total order, and  *)
(* the induction on the natural numbers that the proofs about sequences    *)
(* need, stated for a set so that the provers can apply it.                *)
(***************************************************************************)
EXTENDS Sorting, SequencesExt, FiniteSetTheorems, SequenceTheorems, WellFoundedInduction, TLAPS

\* A set of numbers with 0 and the successor of each is all of them.
LEMMA NatInductionOnSets ==
  ASSUME NEW S \in SUBSET Nat, 0 \in S, \A n \in S : n + 1 \in S
  PROVE  S = Nat
<1> DEFINE T == Nat \ S
<1> SUFFICES ASSUME T # {} PROVE FALSE
  OBVIOUS
<1>1. PICK x \in T : \A y \in T : ~ (<<y, x>> \in OpToRel(<, Nat))
  <2>1. T \subseteq Nat
    OBVIOUS
  <2> HIDE DEF T
  <2> QED BY <2>1, NatLessThanWellFounded, WFMin
<1>2. x \in Nat /\ x # 0 /\ x - 1 \in Nat /\ x - 1 < x
  OBVIOUS
<1>3. <<x - 1, x>> \in OpToRel(<, Nat)
  BY <1>2 DEF OpToRel
<1>4. x - 1 \in S
  BY <1>1, <1>2, <1>3
<1>5. (x - 1) + 1 \in S
  BY <1>4
<1> QED BY <1>2, <1>5

\* The elements up to x in an order T of D.
UpTo(D, T, x) == {y \in D : y = x \/ <<y, x>> \in T}

StrictTotalOrder(D, T) ==
  /\ \A x \in D : <<x, x>> \notin T
  /\ \A x, y \in D : x = y \/ <<x, y>> \in T \/ <<y, x>> \in T
  /\ \A x, y, z \in D : <<x, y>> \in T /\ <<y, z>> \in T => <<x, z>> \in T

\* The number of elements up to each one is its place in the order.
LEMMA PlacesInOrder ==
  ASSUME NEW D, IsFiniteSet(D), NEW T, StrictTotalOrder(D, T)
  PROVE  LET place == [x \in D |-> Cardinality(UpTo(D, T, x))]
         IN  /\ place \in Bijection(D, 1 .. Cardinality(D))
             /\ \A x, y \in D : <<x, y>> \in T => place[x] < place[y]
<1> DEFINE n == Cardinality(D)
           place == [x \in D |-> Cardinality(UpTo(D, T, x))]
<1>1. n \in Nat /\ IsFiniteSet(1 .. n) /\ Cardinality(1 .. n) = n
  BY FS_CardinalityType, FS_Interval
<1>2. ASSUME NEW x \in D
      PROVE  /\ IsFiniteSet(UpTo(D, T, x)) /\ x \in UpTo(D, T, x) /\ UpTo(D, T, x) \subseteq D
             /\ Cardinality(UpTo(D, T, x)) \in 1 .. n
  <2>1. x \in UpTo(D, T, x) /\ UpTo(D, T, x) \subseteq D
    BY DEF UpTo
  <2>2. /\ IsFiniteSet(UpTo(D, T, x)) /\ Cardinality(UpTo(D, T, x)) <= n
        /\ Cardinality(UpTo(D, T, x)) \in Nat
    BY <2>1, FS_Subset, FS_CardinalityType
  <2>3. Cardinality(UpTo(D, T, x)) # 0
    BY <2>1, <2>2, FS_EmptySet
  <2> QED BY <1>1, <2>1, <2>2, <2>3
<1>3. ASSUME NEW x \in D, NEW y \in D, <<x, y>> \in T PROVE place[x] < place[y]
  <2>1. UpTo(D, T, x) \subseteq UpTo(D, T, y) /\ y \notin UpTo(D, T, x)
    BY <1>3 DEF UpTo, StrictTotalOrder
  <2>2. UpTo(D, T, x) # UpTo(D, T, y)
    BY <1>2, <2>1
  <2>3. Cardinality(UpTo(D, T, x)) < Cardinality(UpTo(D, T, y))
    BY <1>2, <2>1, <2>2, FS_Subset
  <2> QED BY <2>3
<1>4. place \in [D -> 1 .. n]
  BY <1>2
<1>5. \A x, y \in D : place[x] = place[y] => x = y
  <2> SUFFICES ASSUME NEW x \in D, NEW y \in D, place[x] = place[y], x # y PROVE FALSE
    OBVIOUS
  <2>1. place[x] \in Int /\ place[y] \in Int
    BY <1>4
  <2>2. place[x] < place[y] \/ place[y] < place[x]
    BY <1>3 DEF StrictTotalOrder
  <2> HIDE DEF place
  <2> QED BY <2>1, <2>2
<1> HIDE DEF place
<1>6. place \in Injection(D, 1 .. n)
  BY <1>4, <1>5 DEF Injection, IsInjective
<1>7. place \in Surjection(D, 1 .. n)
  BY <1>1, <1>6, FS_Injection
<1> QED BY <1>3, <1>6, <1>7 DEF Bijection, place

\* Ascending(S) has the numbers of S, each once, in their order.
LEMMA AscendingOrder ==
  ASSUME NEW S, IsFiniteSet(S), S \subseteq Int
  PROVE  /\ Ascending(S) \in Bijection(1 .. Cardinality(S), S)
         /\ Ascending(S) \in Seq(S) /\ Len(Ascending(S)) = Cardinality(S)
         /\ Cardinality(S) \in Nat
         /\ \A i, j \in 1 .. Cardinality(S) : i < j => Ascending(S)[i] < Ascending(S)[j]
<1> DEFINE n == Cardinality(S)
           T == {e \in S \X S : e[1] < e[2]}
           place == [x \in S |-> Cardinality(UpTo(S, T, x))]
           a == Ascending(S)
<1>1. n \in Nat
  BY FS_CardinalityType
<1>2. \A x, y \in S : <<x, y>> \in T <=> x < y
  OBVIOUS
<1>3. StrictTotalOrder(S, T)
  <2> HIDE DEF T
  <2> QED BY <1>2 DEF StrictTotalOrder
<1>4. \A x \in S : UpTo(S, T, x) = {y \in S : y <= x}
  <2>1. \A x, y \in S : y <= x <=> y = x \/ <<y, x>> \in T
    BY <1>2
  <2> HIDE DEF T
  <2> QED BY <2>1, Zenon DEF UpTo
<1>5. /\ place \in Bijection(S, 1 .. n)
      /\ \A x, y \in S : x < y => place[x] < place[y]
  <2>1. /\ place \in Bijection(S, 1 .. n)
        /\ \A x, y \in S : <<x, y>> \in T => place[x] < place[y]
    <3> HIDE DEF T
    <3> QED BY <1>3, PlacesInOrder
  <2> HIDE DEF place, T
  <2> QED BY <1>2, <2>1
<1>6. \A x \in S : place[x] = Cardinality({y \in S : y <= x})
  BY <1>4
<1>7. \A k \in 1 .. n : a[k] = CHOOSE x \in S : place[x] = k
  BY <1>6 DEF Ascending
<1>8. DOMAIN a = 1 .. n /\ a = [k \in 1 .. n |-> a[k]]
  BY SMTT(40) DEF Ascending
<1> HIDE DEF place, a, n
<1>9. \A k \in 1 .. n : a[k] \in S /\ place[a[k]] = k
  BY <1>5, <1>7 DEF Bijection, Surjection
<1>10. \A x \in S : place[x] \in 1 .. n /\ a[place[x]] = x
  <2>1. \A x \in S : place[x] \in 1 .. n
    BY <1>5 DEF Bijection, Surjection
  <2>2. \A x, y \in S : place[x] = place[y] => x = y
    BY <1>5 DEF Bijection, Injection, IsInjective
  <2> QED BY <1>9, <2>1, <2>2
<1>11. a \in [1 .. n -> S]
  BY <1>8, <1>9
<1>12. a \in Bijection(1 .. n, S)
  BY <1>9, <1>10, <1>11 DEF Bijection, Injection, Surjection, IsInjective
<1>13. \A i, j \in 1 .. n : i < j => a[i] < a[j]
  <2> SUFFICES ASSUME NEW i \in 1 .. n, NEW j \in 1 .. n, i < j, ~(a[i] < a[j]) PROVE FALSE
    OBVIOUS
  <2>1. a[i] \in Int /\ a[j] \in Int /\ a[i] \in S /\ a[j] \in S
    BY <1>9
  <2>2. a[j] < a[i] \/ a[j] = a[i]
    BY <2>1
  <2>3. j < i \/ j = i
    BY <1>5, <1>9, <2>1, <2>2
  <2> QED BY <1>1, <2>3
<1>14. a \in Seq(S) /\ Len(a) = n
  BY <1>1, <1>11
<1> QED BY <1>1, <1>12, <1>13, <1>14 DEF a, n

\* A subsequence has the elements at its positions, and as many.
LEMMA SubsequenceType ==
  ASSUME NEW V, NEW s \in Seq(V), NEW positions \in SUBSET DOMAIN s
  PROVE  /\ Subsequence(s, positions) \in Seq({s[i] : i \in positions})
         /\ Subsequence(s, positions) \in Seq(V)
         /\ Len(Subsequence(s, positions)) = Cardinality(positions)
         /\ Cardinality(positions) \in Nat
         /\ {Subsequence(s, positions)[k] : k \in 1 .. Cardinality(positions)}
              = {s[i] : i \in positions}
<1> DEFINE n == Cardinality(positions)
           a == Ascending(positions)
           t == Subsequence(s, positions)
           W == {s[i] : i \in positions}
<1>1. Len(s) \in Nat /\ DOMAIN s = 1 .. Len(s) /\ \A i \in DOMAIN s : s[i] \in V
  OBVIOUS
<1>2. IsFiniteSet(positions) /\ positions \subseteq Int
  <2>1. IsFiniteSet(1 .. Len(s)) /\ positions \subseteq 1 .. Len(s)
    BY <1>1, FS_Interval
  <2>2. 1 .. Len(s) \subseteq Int
    OBVIOUS
  <2> QED BY <2>1, <2>2, FS_Subset, Zenon
<1>3. a \in Bijection(1 .. n, positions) /\ n \in Nat
  BY <1>2, AscendingOrder
<1>4. t = [k \in 1 .. n |-> s[a[k]]]
  BY DEF Subsequence
<1> HIDE DEF a, n, t
<1>5. /\ \A k \in 1 .. n : a[k] \in positions
      /\ \A i \in positions : \E k \in 1 .. n : a[k] = i
  BY <1>3 DEF Bijection, Surjection
<1>6. t \in [1 .. n -> W]
  BY <1>4, <1>5
<1>7. t \in [1 .. n -> V]
  BY <1>1, <1>4, <1>5
<1>8. t \in Seq(W) /\ t \in Seq(V) /\ Len(t) = n
  <2> HIDE DEF W
  <2> QED BY <1>3, <1>6, <1>7
<1>9. {t[k] : k \in 1 .. n} = W
  BY <1>4, <1>5
<1> QED BY <1>3, <1>8, <1>9 DEF t, n

\* The last element leaves a sequence as the first ones stay.
LEMMA FrontAndLast ==
  ASSUME NEW S, NEW s \in Seq(S), s # <<>>
  PROVE  /\ Len(s) \in Nat \ {0}
         /\ Last(s) \in S /\ Last(s) = s[Len(s)]
         /\ Front(s) \in Seq(S) /\ Len(Front(s)) = Len(s) - 1
         /\ \A k \in 1 .. Len(s) - 1 : Front(s)[k] = s[k]
<1>1. Len(s) \in Nat \ {0} /\ \A k \in 1 .. Len(s) : s[k] \in S
  OBVIOUS
<1>2. Last(s) = s[Len(s)] /\ Last(s) \in S
  BY <1>1 DEF Last
<1> DEFINE m == Len(s) - 1
<1>3. m \in Nat /\ m \in Int /\ 1 \in Int /\ \A k \in 1 .. m : s[k] \in S
  BY <1>1
<1>4. /\ SubSeq(s, 1, m) \in Seq(S)
      /\ Len(SubSeq(s, 1, m)) = IF 1 <= m THEN m - 1 + 1 ELSE 0
      /\ \A k \in 1 .. m - 1 + 1 : SubSeq(s, 1, m)[k] = s[1 + k - 1]
  <2> HIDE DEF m
  <2> QED BY <1>3, SubSeqProperties, SMT
<1>5. Len(Front(s)) = m /\ Front(s) \in Seq(S)
  <2> HIDE DEF m
  <2>1. (IF 1 <= m THEN m - 1 + 1 ELSE 0) = m
    BY <1>3
  <2>2. Front(s) = SubSeq(s, 1, m)
    BY DEF Front, m
  <2> QED BY <1>4, <2>1, <2>2, Zenon
<1>6. \A k \in 1 .. m : Front(s)[k] = s[k]
  <2>1. \A k \in 1 .. m : k \in 1 .. m - 1 + 1 /\ 1 + k - 1 = k
    BY <1>3
  <2>2. Front(s) = SubSeq(s, 1, m)
    BY DEF Front
  <2> HIDE DEF m
  <2> QED BY <1>4, <2>1, <2>2, Zenon
<1> QED BY <1>1, <1>2, <1>5, <1>6, Zenon

LEMMA MaxOfTwo ==
  ASSUME NEW a \in Int, NEW b \in Int
  PROVE  Max({a, b}) = IF a >= b THEN a ELSE b
BY DEF Max

LEMMA MinOfTwo ==
  ASSUME NEW a \in Int, NEW b \in Int
  PROVE  Min({a, b}) = IF a <= b THEN a ELSE b
BY DEF Min

\* A set of numbers up to m has a largest one.
LEMMA MaxOfSome ==
  ASSUME NEW m \in Nat, NEW t \in SUBSET (1 .. m), t # {}
  PROVE  Max(t) \in t /\ \A y \in t : y <= Max(t)
<1> DEFINE HasMax(u) == \E x \in u : \A y \in u : x >= y
           S == {k \in Nat : \A u \in SUBSET (1 .. k) : u # {} => HasMax(u)}
<1>1. 0 \in S
  <2>1. \A u \in SUBSET (1 .. 0) : u = {}
    OBVIOUS
  <2> HIDE DEF HasMax
  <2> QED BY <2>1
<1>2. ASSUME NEW k \in S PROVE k + 1 \in S
  <2>1. k \in Nat /\ \A u \in SUBSET (1 .. k) : u # {} => HasMax(u)
    OBVIOUS
  <2>2. ASSUME NEW u \in SUBSET (1 .. k + 1), u # {} PROVE HasMax(u)
    <3>1. CASE k + 1 \in u
      BY <2>1, <3>1
    <3>2. CASE k + 1 \notin u
      <4>1. u \in SUBSET (1 .. k)
        BY <2>1, <3>2
      <4> QED BY <2>1, <2>2, <4>1
    <3> QED BY <3>1, <3>2
  <2> HIDE DEF HasMax
  <2> QED BY <2>1, <2>2
<1>3. S = Nat
  <2>1. S \in SUBSET Nat
    OBVIOUS
  <2> HIDE DEF S
  <2> QED BY <1>1, <1>2, <2>1, NatInductionOnSets
<1>4. HasMax(t)
  <2>1. m \in S
    BY <1>3
  <2> HIDE DEF HasMax
  <2> QED BY <2>1
<1> QED BY <1>4 DEF Max

\* A fold from left to right, on every set of positions up to n, with a step
\* H of what was folded and the next position.
IsFold(g, base, n, H) ==
  \A t \in SUBSET (1 .. n) : g[t] = IF t = {} THEN base ELSE H[<<g[t \ {Max(t)}], Max(t)>>]

\* There is one, so that FoldLeft is what it says.
LEMMA FoldExists ==
  ASSUME NEW A, NEW base \in A, NEW n \in Nat, NEW H \in [A \X (1 .. n) -> A]
  PROVE  \E g \in [SUBSET (1 .. n) -> A] : IsFold(g, base, n, H)
<1> DEFINE Rule(g, t) == g[t] = IF t = {} THEN base ELSE H[<<g[t \ {Max(t)}], Max(t)>>]
           Exists(m) == \E g \in [SUBSET (1 .. m) -> A] : \A t \in SUBSET (1 .. m) : Rule(g, t)
           S == {m \in Nat : m <= n => Exists(m)}
<1>1. 0 \in S
  <2> DEFINE g == [t \in SUBSET (1 .. 0) |-> base]
  <2>1. \A t \in SUBSET (1 .. 0) : t = {}
    OBVIOUS
  <2>2. g \in [SUBSET (1 .. 0) -> A] /\ \A t \in SUBSET (1 .. 0) : Rule(g, t)
    BY <2>1
  <2> QED BY <2>2
<1>2. ASSUME NEW m \in S PROVE m + 1 \in S
  <2>1. m \in Nat /\ (m <= n => Exists(m))
    OBVIOUS
  <2>2. ASSUME m + 1 <= n PROVE Exists(m + 1)
    <3>1. m + 1 \in 1 .. n /\ m <= n
      BY <2>1, <2>2
    <3>2. PICK g \in [SUBSET (1 .. m) -> A] : \A t \in SUBSET (1 .. m) : Rule(g, t)
      BY <2>1, <3>1
    <3> DEFINE h == [t \in SUBSET (1 .. m + 1) |->
                       IF m + 1 \in t THEN H[<<g[t \ {m + 1}], m + 1>>] ELSE g[t]]
    <3>3. ASSUME NEW t \in SUBSET (1 .. m + 1), m + 1 \in t
          PROVE  /\ t \ {m + 1} \in SUBSET (1 .. m) /\ Max(t) = m + 1
                 /\ h[t] = H[<<g[t \ {m + 1}], m + 1>>] /\ h[t] \in A
                 /\ h[t \ {m + 1}] = g[t \ {m + 1}]
      <4>1. t \ {m + 1} \in SUBSET (1 .. m) /\ t \ {m + 1} \in SUBSET (1 .. m + 1)
        BY <2>1
      <4>2. Max(t) = m + 1
        <5> HIDE DEF S, h
        <5>1. m + 1 \in Nat /\ t # {}
          BY <2>1, <3>3
        <5>2. Max(t) \in t /\ \A y \in t : y <= Max(t)
          BY <5>1, MaxOfSome
        <5>3. Max(t) \in 1 .. m + 1 /\ m + 1 <= Max(t)
          BY <3>3, <5>2
        <5> QED BY <2>1, <5>3
      <4> QED BY <3>1, <3>3, <4>1, <4>2
    <3>4. ASSUME NEW t \in SUBSET (1 .. m + 1), m + 1 \notin t
          PROVE  t \in SUBSET (1 .. m) /\ h[t] = g[t] /\ h[t] \in A
      <4>1. t \in SUBSET (1 .. m)
        BY <2>1, <3>4
      <4> QED BY <3>4, <4>1
    <3> HIDE DEF h
    <3>5. h \in [SUBSET (1 .. m + 1) -> A]
      BY <3>3, <3>4 DEF h
    <3>6. ASSUME NEW t \in SUBSET (1 .. m + 1) PROVE Rule(h, t)
      <4>1. CASE m + 1 \in t
        BY <3>3, <4>1
      <4>2. CASE m + 1 \notin t /\ t = {}
        BY <3>2, <3>4, <4>2
      <4>3. CASE m + 1 \notin t /\ t # {}
        <5>1. t \in SUBSET (1 .. m) /\ h[t] = g[t] /\ t \ {Max(t)} \in SUBSET (1 .. m)
          BY <3>4, <4>3
        <5>2. h[t \ {Max(t)}] = g[t \ {Max(t)}]
          BY <3>4, <4>3, <5>1
        <5> QED BY <3>2, <4>3, <5>1, <5>2
      <4> QED BY <4>1, <4>2, <4>3
    <3> HIDE DEF Rule
    <3> QED BY <3>5, <3>6
  <2> HIDE DEF Exists
  <2> QED BY <2>1, <2>2
<1>3. S = Nat
  <2>1. S \in SUBSET Nat
    OBVIOUS
  <2> HIDE DEF S
  <2> QED BY <1>1, <1>2, <2>1, NatInductionOnSets
<1>4. Exists(n)
  <2>1. n \in S
    BY <1>3
  <2> HIDE DEF Exists
  <2> QED BY <2>1
<1> QED BY <1>4 DEF IsFold

\* A set of natural numbers that is not empty has a smallest one.
LEMMA MinOfSome ==
  ASSUME NEW t \in SUBSET Nat, t # {}
  PROVE  Min(t) \in t /\ \A y \in t : Min(t) <= y
<1>1. PICK x \in t : \A y \in t : ~ (<<y, x>> \in OpToRel(<, Nat))
  BY NatLessThanWellFounded, WFMin
<1>2. ASSUME NEW y \in t PROVE x <= y
  <2>1. x \in Nat /\ y \in Nat
    OBVIOUS
  <2>2. ~(y < x)
    BY <1>1, <2>1 DEF OpToRel
  <2> QED BY <2>1, <2>2
<1> QED BY <1>2 DEF Min

\* Induction on the numbers up to n.
LEMMA InductionUpTo ==
  ASSUME NEW n \in Nat, NEW S, 0 \in S, \A k \in 1 .. n : k - 1 \in S => k \in S
  PROVE  \A k \in 0 .. n : k \in S
<1> DEFINE T == {k \in Nat : k <= n => k \in S}
<1>1. 0 \in T
  OBVIOUS
<1>2. ASSUME NEW k \in T PROVE k + 1 \in T
  <2>1. k \in Nat /\ (k <= n => k \in S)
    OBVIOUS
  <2>2. k + 1 <= n => k + 1 \in 1 .. n /\ (k + 1) - 1 = k /\ k <= n
    BY <2>1
  <2>3. k + 1 <= n => k + 1 \in S
    BY <2>1, <2>2
  <2> QED BY <2>1, <2>3
<1>3. T = Nat
  <2>1. T \in SUBSET Nat
    OBVIOUS
  <2> HIDE DEF T
  <2> QED BY <1>1, <1>2, <2>1, NatInductionOnSets
<1> QED BY <1>3

\* A new last element.
LEMMA AppendedElements ==
  ASSUME NEW S, NEW s \in Seq(S), NEW e \in S
  PROVE  /\ Append(s, e) \in Seq(S) /\ Len(Append(s, e)) = Len(s) + 1
         /\ ToSet(Append(s, e)) = ToSet(s) \cup {e}
<1>1. Len(s) \in Nat /\ DOMAIN s = 1 .. Len(s)
  OBVIOUS
<1>2. /\ Append(s, e) \in Seq(S) /\ Len(Append(s, e)) = Len(s) + 1
      /\ \A i \in 1 .. Len(s) : Append(s, e)[i] = s[i]
      /\ Append(s, e)[Len(s) + 1] = e
  BY AppendProperties
<1> DEFINE t == Append(s, e)
<1>3. DOMAIN t = 1 .. Len(s) + 1
  BY <1>2
<1> HIDE DEF t
<1>4. DOMAIN t = (1 .. Len(s)) \cup {Len(s) + 1}
  BY <1>1, <1>3
<1>5. /\ \A i \in 1 .. Len(s) : t[i] = s[i]
      /\ t[Len(s) + 1] = e
  BY <1>2 DEF t
<1>6. ToSet(t) = ToSet(s) \cup {e}
  BY <1>1, <1>4, <1>5 DEF ToSet
<1> QED BY <1>2, <1>6 DEF t

\* The first m elements of a sequence and the rest.
LEMMA SplitAt ==
  ASSUME NEW V, NEW s \in Seq(V), NEW m \in 0 .. Len(s)
  PROVE  /\ SubSeq(s, 1, m) \in Seq(V) /\ SubSeq(s, m + 1, Len(s)) \in Seq(V)
         /\ Len(SubSeq(s, 1, m)) = m /\ Len(SubSeq(s, m + 1, Len(s))) = Len(s) - m
         /\ ToSet(SubSeq(s, 1, m)) \cup ToSet(SubSeq(s, m + 1, Len(s))) = ToSet(s)
<1> DEFINE first == SubSeq(s, 1, m)
           last  == SubSeq(s, m + 1, Len(s))
           n     == Len(s)
<1>1. n \in Nat /\ DOMAIN s = 1 .. n /\ m \in Int /\ m + 1 \in Int /\ n \in Int /\ 1 \in Int
  OBVIOUS
<1>2. \A i \in 1 .. n : s[i] \in V
  OBVIOUS
<1>3. 1 .. m \subseteq 1 .. n /\ m + 1 .. n \subseteq 1 .. n
  BY <1>1
<1>4. /\ first \in Seq(V) /\ Len(first) = (IF 1 <= m THEN m - 1 + 1 ELSE 0)
      /\ \A i \in 1 .. m - 1 + 1 : first[i] = s[1 + i - 1]
  <2> HIDE DEF n
  <2> QED BY <1>1, <1>2, <1>3, SubSeqProperties, SMT
<1>5. /\ last \in Seq(V) /\ Len(last) = (IF m + 1 <= n THEN n - (m + 1) + 1 ELSE 0)
      /\ \A i \in 1 .. n - (m + 1) + 1 : last[i] = s[(m + 1) + i - 1]
  <2> HIDE DEF n
  <2>1. last = SubSeq(s, m + 1, n)
    BY DEF n
  <2> QED BY <1>1, <1>2, <1>3, <2>1, SubSeqProperties, SMTT(40)
<1> HIDE DEF first, last
<1>6. Len(first) = m /\ Len(last) = n - m
  <2>1. m \in 0 .. n
    OBVIOUS
  <2> HIDE DEF n
  <2>2. (IF 1 <= m THEN m - 1 + 1 ELSE 0) = m
    BY <1>1, <2>1
  <2>3. (IF m + 1 <= n THEN n - (m + 1) + 1 ELSE 0) = n - m
    BY <1>1, <2>1
  <2> QED BY <1>4, <1>5, <2>2, <2>3
<1>7. /\ DOMAIN first = 1 .. m /\ \A i \in 1 .. m : first[i] = s[i]
      /\ DOMAIN last = 1 .. n - m /\ \A i \in 1 .. n - m : last[i] = s[m + i]
  <2>1. \A i \in 1 .. m : i \in 1 .. m - 1 + 1 /\ 1 + i - 1 = i
    BY <1>1
  <2>2. \A i \in 1 .. n - m : i \in 1 .. n - (m + 1) + 1 /\ (m + 1) + i - 1 = m + i
    BY <1>1
  <2> HIDE DEF n
  <2> QED BY <1>1, <1>4, <1>5, <1>6, <2>1, <2>2
<1>8. \A j \in 1 .. n : j \in 1 .. m \/ \E i \in 1 .. n - m : j = m + i
  <2> SUFFICES ASSUME NEW j \in 1 .. n, j \notin 1 .. m PROVE \E i \in 1 .. n - m : j = m + i
    OBVIOUS
  <2>1. j - m \in 1 .. n - m /\ j = m + (j - m)
    BY <1>1
  <2> QED BY <2>1
<1>9. \A i \in 1 .. n - m : m + i \in 1 .. n
  BY <1>1
<1> HIDE DEF n
<1>10. ToSet(first) \cup ToSet(last) = ToSet(s)
  <2>1. ToSet(first) = {s[i] : i \in 1 .. m}
    BY <1>7 DEF ToSet
  <2>2. ToSet(last) = {s[m + i] : i \in 1 .. n - m}
    BY <1>7 DEF ToSet
  <2>3. ToSet(s) = {s[i] : i \in 1 .. n}
    BY <1>1 DEF ToSet
  <2>4. ASSUME NEW x \in ToSet(s) PROVE x \in ToSet(first) \cup ToSet(last)
    <3>1. PICK j \in 1 .. n : x = s[j]
      BY <2>3
    <3> QED BY <1>8, <2>1, <2>2, <3>1
  <2>5. ToSet(first) \subseteq ToSet(s)
    BY <1>3, <2>1, <2>3
  <2>6. ToSet(last) \subseteq ToSet(s)
    BY <1>9, <2>2, <2>3
  <2> QED BY <2>4, <2>5, <2>6
<1> QED BY <1>4, <1>5, <1>6, <1>10, Zenon DEF first, last, n

\* A function on the natural numbers may be defined by recursion.
IsRecursion(c, base, H) == c[0] = base /\ \A k \in Nat : c[k + 1] = H[c[k]]

LEMMA RecursionExists ==
  ASSUME NEW A, NEW base \in A, NEW H \in [A -> A]
  PROVE  \E c \in [Nat -> A] : IsRecursion(c, base, H)
<1> DEFINE P(f, n) == f \in [0 .. n -> A] /\ f[0] = base /\ \A k \in 1 .. n : f[k] = H[f[k - 1]]
           S == {n \in Nat : \E f : P(f, n)}
           F == [n \in Nat |-> CHOOSE f : P(f, n)]
           c == [n \in Nat |-> F[n][n]]
<1>1. S = Nat
  <2>1. 0 \in S
    <3>1. P([k \in 0 .. 0 |-> base], 0)
      OBVIOUS
    <3> QED BY <3>1
  <2>2. ASSUME NEW n \in S PROVE n + 1 \in S
    <3>1. n \in Nat /\ \E f : P(f, n)
      OBVIOUS
    <3>2. PICK f : P(f, n)
      BY <3>1
    <3> DEFINE g == [k \in 0 .. n + 1 |-> IF k = n + 1 THEN H[f[n]] ELSE f[k]]
    <3>3. g \in [0 .. n + 1 -> A] /\ g[0] = base
      BY <3>1, <3>2
    <3>4. \A k \in 1 .. n + 1 : g[k] = H[g[k - 1]]
      BY <3>1, <3>2
    <3>5. P(g, n + 1)
      BY <3>3, <3>4
    <3> HIDE DEF P
    <3> QED BY <3>1, <3>5
  <2>3. S \in SUBSET Nat
    OBVIOUS
  <2> HIDE DEF S
  <2> QED BY <2>1, <2>2, <2>3, NatInductionOnSets
<1>2. \A n \in Nat : P(F[n], n)
  <2> HIDE DEF P
  <2> SUFFICES ASSUME NEW n \in Nat PROVE P(F[n], n)
    OBVIOUS
  <2>1. \E f : P(f, n)
    BY <1>1
  <2> QED BY <2>1
<1> HIDE DEF F
<1>3. ASSUME NEW n \in Nat PROVE F[n + 1][n] = F[n][n]
  <2> DEFINE T == {k \in 0 .. n : F[n + 1][k] = F[n][k]}
  <2>1. 0 \in T
    BY <1>2
  <2>2. ASSUME NEW k \in 1 .. n, k - 1 \in T PROVE k \in T
    <3>1. k \in 1 .. n + 1 /\ k \in 0 .. n
      OBVIOUS
    <3>2. F[n + 1][k] = H[F[n + 1][k - 1]] /\ F[n][k] = H[F[n][k - 1]]
      BY <1>2, <3>1
    <3> QED BY <2>2, <3>1, <3>2
  <2>3. \A k \in 0 .. n : k \in T
    <3> HIDE DEF T
    <3> QED BY <2>1, <2>2, InductionUpTo
  <2> QED BY <2>3
<1>4. c \in [Nat -> A]
  BY <1>2
<1>5. c[0] = base
  BY <1>2
<1>6. \A k \in Nat : c[k + 1] = H[c[k]]
  <2> SUFFICES ASSUME NEW k \in Nat PROVE c[k + 1] = H[c[k]]
    OBVIOUS
  <2>1. k + 1 \in Nat /\ k + 1 \in 1 .. k + 1 /\ (k + 1) - 1 = k
    OBVIOUS
  <2>2. F[k + 1][k + 1] = H[F[k + 1][k]]
    BY <1>2, <2>1
  <2> QED BY <1>3, <2>1, <2>2
<1> QED BY <1>4, <1>5, <1>6 DEF IsRecursion

----------------------------------------------------------------------------
(* Sorting by a key *)

\* The order of the elements of s when an order R compares their keys.
LessByKey(K, R, a, b) == <<K[a], K[b]>> \in R

\* What sorting by a key returns: the elements rearranged by p, in order.
IsSortedBy(r, s, p, K, R) ==
  /\ p \in Bijection(DOMAIN s, DOMAIN s)
  /\ r = [k \in DOMAIN s |-> s[p[k]]]
  /\ \A k, l \in DOMAIN s : k < l => K[r[k]] = K[r[l]] \/ LessByKey(K, R, r[k], r[l])

\* The place of each element when an order of the keys compares them.
PlacesByKey(s, K, R) ==
  [i \in DOMAIN s |-> Cardinality({j \in DOMAIN s :
                        \/ LessByKey(K, R, s[j], s[i])
                        \/ ~LessByKey(K, R, s[i], s[j]) /\ j <= i})]

\* The elements of s at the places given to them.
Placed(s, place) == [k \in DOMAIN s |-> s[CHOOSE i \in DOMAIN s : place[i] = k]]

LEMMA SortedByKey ==
  ASSUME NEW V, NEW s \in Seq(V), NEW W, NEW K \in [V -> W], NEW R, StrictTotalOrder(W, R)
  PROVE  \E p : IsSortedBy(Placed(s, PlacesByKey(s, K, R)), s, p, K, R)
<1> DEFINE D == DOMAIN s
           n == Len(s)
           L(i, j) == <<K[s[i]], K[s[j]]>> \in R
           T == {e \in D \X D : L(e[1], e[2]) \/ (~L(e[2], e[1]) /\ e[1] < e[2])}
           place == PlacesByKey(s, K, R)
           p == [k \in D |-> CHOOSE i \in D : place[i] = k]
           r == [k \in D |-> s[CHOOSE i \in D : place[i] = k]]
<1>1. n \in Nat /\ D = 1 .. n /\ IsFiniteSet(D) /\ Cardinality(D) = n
  <2>1. n \in Nat /\ D = 1 .. n
    OBVIOUS
  <2>2. IsFiniteSet(1 .. n) /\ Cardinality(1 .. n) = n
    <3> HIDE DEF n
    <3> QED BY <2>1, FS_Interval
  <2> QED BY <2>1, <2>2
<1>2. \A i \in D : K[s[i]] \in W
  OBVIOUS
<1>3. \A i, j \in D : <<i, j>> \in T <=> L(i, j) \/ (~L(j, i) /\ i < j)
  OBVIOUS
<1>4. \A i, j \in D : \/ L(i, j) /\ ~L(j, i) /\ K[s[i]] # K[s[j]]
                      \/ L(j, i) /\ ~L(i, j) /\ K[s[i]] # K[s[j]]
                      \/ ~L(i, j) /\ ~L(j, i) /\ K[s[i]] = K[s[j]]
  BY <1>2 DEF StrictTotalOrder
<1>5. \A i, j, k \in D : L(i, j) /\ L(j, k) => L(i, k)
  BY <1>2 DEF StrictTotalOrder
<1> HIDE DEF T, D, L
<1>6. StrictTotalOrder(D, T)
  <2>1. ASSUME NEW i \in D PROVE <<i, i>> \notin T
    <3>1. i \in Int /\ ~L(i, i)
      BY <1>1, <1>4
    <3> QED BY <1>3, <3>1
  <2>2. ASSUME NEW i \in D, NEW j \in D, i # j PROVE <<i, j>> \in T \/ <<j, i>> \in T
    <3>1. i < j \/ j < i
      BY <1>1, <2>2
    <3>2. <<i, j>> \in T <=> L(i, j) \/ (~L(j, i) /\ i < j)
      BY <1>3
    <3>3. <<j, i>> \in T <=> L(j, i) \/ (~L(i, j) /\ j < i)
      BY <1>3
    <3> QED BY <3>1, <3>2, <3>3
  <2>3. ASSUME NEW i \in D, NEW j \in D, NEW k \in D, <<i, j>> \in T, <<j, k>> \in T
        PROVE  <<i, k>> \in T
    <3>1. i \in Int /\ j \in Int /\ k \in Int
      BY <1>1
    <3>2. CASE L(i, j) /\ L(j, k)
      BY <1>3, <1>5, <3>2
    <3>3. CASE L(i, j) /\ K[s[j]] = K[s[k]]
      BY <1>3, <3>3 DEF L
    <3>4. CASE K[s[i]] = K[s[j]] /\ L(j, k)
      BY <1>3, <3>4 DEF L
    <3>5. CASE K[s[i]] = K[s[j]] /\ K[s[j]] = K[s[k]] /\ i < j /\ j < k
      <4>1. ~L(k, i) /\ i < k
        BY <1>4, <3>1, <3>5
      <4> QED BY <1>3, <4>1
    <3> QED BY <1>3, <1>4, <2>3, <3>2, <3>3, <3>4, <3>5
  <2> QED BY <2>1, <2>2, <2>3 DEF StrictTotalOrder
<1>7. \A i \in D : place[i] = Cardinality(UpTo(D, T, i))
  <2> SUFFICES ASSUME NEW i \in D PROVE place[i] = Cardinality(UpTo(D, T, i))
    OBVIOUS
  <2>1. \A j \in D : (L(j, i) \/ (~L(i, j) /\ j <= i)) <=> (j = i \/ <<j, i>> \in T)
    <3>1. \A j \in D : j \in Int /\ i \in Int
      BY <1>1
    <3> QED BY <1>3, <1>4, <3>1
  <2>2. {j \in D : LessByKey(K, R, s[j], s[i]) \/ (~LessByKey(K, R, s[i], s[j]) /\ j <= i)}
          = UpTo(D, T, i)
    BY <2>1 DEF UpTo, LessByKey, L
  <2> QED BY <2>2, Zenon DEF PlacesByKey, D
<1> DEFINE upto == [x \in D |-> Cardinality(UpTo(D, T, x))]
<1>8. upto \in Bijection(D, 1 .. n) /\ \A i, j \in D : <<i, j>> \in T => upto[i] < upto[j]
  BY <1>1, <1>6, PlacesInOrder
<1>9. \A i \in D : place[i] = upto[i]
  BY <1>7
<1> HIDE DEF upto, place
<1>10. \A k \in D : p[k] \in D /\ upto[p[k]] = k
  BY <1>1, <1>8, <1>9, ZenonT(40) DEF Bijection, Surjection
<1>11. \A i, j \in D : upto[i] = upto[j] => i = j
  BY <1>8 DEF Bijection, Injection, IsInjective
<1>12. \A i \in D : upto[i] \in D
  BY <1>1, <1>8 DEF Bijection, Surjection
<1>13. r = [k \in D |-> s[p[k]]]
  OBVIOUS
<1> HIDE DEF r
<1>14. p \in Bijection(D, D)
  <2>1. p \in [D -> D]
    BY <1>10
  <2>2. \A i \in D : p[upto[i]] = i
    BY <1>10, <1>11, <1>12
  <2> HIDE DEF p
  <2>3. \A i, j \in D : p[i] = p[j] => i = j
    BY <1>10
  <2>4. \A i \in D : \E j \in D : p[j] = i
    BY <1>12, <2>2
  <2> QED BY <2>1, <2>3, <2>4 DEF Bijection, Injection, Surjection, IsInjective
<1> HIDE DEF p
<1>15. ASSUME NEW k \in D, NEW l \in D, k < l
       PROVE  K[r[k]] = K[r[l]] \/ LessByKey(K, R, r[k], r[l])
  <2>1. p[k] \in D /\ p[l] \in D /\ upto[p[k]] = k /\ upto[p[l]] = l
    BY <1>10
  <2>2. <<p[l], p[k]>> \notin T
    <3>1. k \in Int /\ l \in Int
      BY <1>1
    <3>2. upto[p[l]] > upto[p[k]]
      BY <1>15, <2>1, <3>1
    <3>3. <<p[l], p[k]>> \in T => upto[p[l]] < upto[p[k]]
      BY <1>8, <2>1
    <3> QED BY <2>1, <3>1, <3>2, <3>3
  <2>3. ~L(p[l], p[k])
    BY <1>3, <2>1, <2>2
  <2>4. K[s[p[k]]] = K[s[p[l]]] \/ L(p[k], p[l])
    BY <1>4, <2>1, <2>3
  <2> QED BY <1>13, <2>4 DEF LessByKey, L
<1>16. IsSortedBy(r, s, p, K, R)
  BY <1>13, <1>14, <1>15 DEF IsSortedBy, D
<1> QED BY <1>16 DEF r, place, D, Placed

StrictlySorted(r, K, R) ==
  \A k, l \in DOMAIN r : k < l => LessByKey(K, R, r[k], r[l])

\* A strictly sorted sequence begins as any other one of the same elements.
LEMMA SortedBegin ==
  ASSUME NEW V, NEW W, NEW K \in [V -> W], NEW R, StrictTotalOrder(W, R),
         NEW r \in Seq(V), NEW s \in Seq(V), ToSet(r) = ToSet(s),
         StrictlySorted(r, K, R), StrictlySorted(s, K, R)
  PROVE  \A k \in 1 .. Len(r) : k <= Len(s) /\ r[k] = s[k]
<1> DEFINE L(x, y) == LessByKey(K, R, x, y)
           n == Len(r)
           m == Len(s)
           S == {k \in 0 .. n : \A j \in 1 .. k : j <= m /\ r[j] = s[j]}
<1>1. n \in Nat /\ m \in Nat /\ DOMAIN r = 1 .. n /\ DOMAIN s = 1 .. m
  OBVIOUS
<1>2. \A x, y \in V : L(x, y) => x # y /\ ~L(y, x)
  BY DEF StrictTotalOrder, LessByKey
<1>3. /\ \A i \in 1 .. n : \E j \in 1 .. m : r[i] = s[j]
      /\ \A j \in 1 .. m : \E i \in 1 .. n : r[i] = s[j]
  BY <1>1 DEF ToSet
<1>4. /\ \A i \in 1 .. n : r[i] \in V
      /\ \A j \in 1 .. m : s[j] \in V
  OBVIOUS
<1>5. /\ \A i, j \in 1 .. n : i < j => L(r[i], r[j])
      /\ \A i, j \in 1 .. m : i < j => L(s[i], s[j])
  BY <1>1 DEF StrictlySorted
<1> HIDE DEF L, n, m
<1>6. 0 \in S
  BY <1>1
<1>7. ASSUME NEW k \in 1 .. n, k - 1 \in S PROVE k \in S
  <2>1. k \in Int /\ k - 1 \in Int /\ k \in 0 .. n
    BY <1>1
  <2>2. \A j \in 1 .. k - 1 : j <= m /\ r[j] = s[j]
    BY <1>7
  <2>3. PICK l \in 1 .. m : r[k] = s[l]
    BY <1>3
  <2>4. l >= k
    <3> SUFFICES ASSUME l < k PROVE FALSE
      BY <1>1, <2>1
    <3>1. l \in 1 .. k - 1 /\ l \in 1 .. n
      BY <1>1, <2>1
    <3>2. r[l] = r[k] /\ L(r[l], r[k])
      BY <1>5, <2>2, <2>3, <3>1
    <3> QED BY <1>2, <1>4, <3>1, <3>2
  <2>5. k \in 1 .. m
    BY <1>1, <2>1, <2>4
  <2>6. PICK i \in 1 .. n : r[i] = s[k]
    BY <1>3, <2>5
  <2>7. i >= k
    <3> SUFFICES ASSUME i < k PROVE FALSE
      BY <1>1, <2>1
    <3>1. i \in 1 .. k - 1 /\ i \in 1 .. m
      BY <1>1, <2>1, <2>5
    <3>2. s[i] = s[k] /\ L(s[i], s[k])
      BY <1>5, <2>2, <2>5, <2>6, <3>1
    <3> QED BY <1>2, <1>4, <2>5, <3>1, <3>2
  <2>8. r[k] = s[k]
    <3> SUFFICES ASSUME l > k, i > k PROVE FALSE
      BY <1>1, <2>1, <2>3, <2>4, <2>6, <2>7
    <3>1. L(s[k], s[l]) /\ L(r[k], r[i])
      BY <1>5, <2>5
    <3> QED BY <1>2, <1>4, <2>3, <2>6, <3>1
  <2>9. \A j \in 1 .. k : j \in 1 .. k - 1 \/ j = k
    BY <2>1
  <2>10. \A j \in 1 .. k : j <= m /\ r[j] = s[j]
    BY <1>1, <2>2, <2>5, <2>8, <2>9
  <2> QED BY <2>1, <2>10
<1>8. n \in S
  <2>1. \A k \in 0 .. n : k \in S
    <3> HIDE DEF S
    <3> QED BY <1>1, <1>6, <1>7, InductionUpTo
  <2> HIDE DEF S
  <2> QED BY <1>1, <2>1
<1> QED BY <1>8 DEF n, m

\* The elements of a strictly sorted sequence tell it.
LEMMA SortedUnique ==
  ASSUME NEW V, NEW W, NEW K \in [V -> W], NEW R, StrictTotalOrder(W, R),
         NEW r \in Seq(V), NEW s \in Seq(V), ToSet(r) = ToSet(s),
         StrictlySorted(r, K, R), StrictlySorted(s, K, R)
  PROVE  r = s
<1>1. Len(r) \in Nat /\ Len(s) \in Nat
  OBVIOUS
<1>2. /\ \A k \in 1 .. Len(r) : k <= Len(s) /\ r[k] = s[k]
      /\ \A k \in 1 .. Len(s) : k <= Len(r)
  BY SortedBegin
<1>3. Len(r) = Len(s)
  BY <1>1, <1>2
<1> QED BY <1>2, <1>3

\* What sorting by a key keeps.
LEMMA SortedElements ==
  ASSUME NEW V, NEW K, NEW R, NEW s \in Seq(V), NEW r, NEW p, IsSortedBy(r, s, p, K, R)
  PROVE  r \in Seq(V) /\ Len(r) = Len(s) /\ DOMAIN r = DOMAIN s /\ ToSet(r) = ToSet(s)
<1>1. Len(s) \in Nat /\ DOMAIN s = 1 .. Len(s) /\ \A i \in DOMAIN s : s[i] \in V
  OBVIOUS
<1>2. /\ \A k \in DOMAIN s : p[k] \in DOMAIN s
      /\ \A i \in DOMAIN s : \E k \in DOMAIN s : p[k] = i
  BY DEF IsSortedBy, Bijection, Injection, Surjection, IsInjective
<1>3. r = [k \in DOMAIN s |-> s[p[k]]]
  BY DEF IsSortedBy
<1>4. r \in Seq(V) /\ Len(r) = Len(s) /\ DOMAIN r = DOMAIN s
  <2>1. r = [k \in 1 .. Len(s) |-> s[p[k]]] /\ \A k \in 1 .. Len(s) : s[p[k]] \in V
    BY <1>1, <1>2, <1>3
  <2> QED BY <1>1, <2>1
<1>5. ToSet(r) = ToSet(s)
  <2>1. \A k \in DOMAIN s : r[k] = s[p[k]]
    BY <1>3
  <2>2. ToSet(r) = {r[k] : k \in DOMAIN s}
    BY <1>4 DEF ToSet
  <2>3. ASSUME NEW i \in DOMAIN s PROVE s[i] \in ToSet(r)
    <3>1. PICK k \in DOMAIN s : p[k] = i
      BY <1>2
    <3>2. r[k] = s[i]
      BY <2>1, <3>1
    <3> QED BY <2>2, <3>2
  <2>4. ASSUME NEW k \in DOMAIN s PROVE r[k] \in ToSet(s)
    BY <1>2, <2>1 DEF ToSet
  <2> QED BY <2>2, <2>3, <2>4 DEF ToSet
<1> QED BY <1>4, <1>5

DistinctKeys(s, K) == \A i, j \in DOMAIN s : K[s[i]] = K[s[j]] => i = j

\* Distinct keys stay distinct, and leave one order.
LEMMA SortedDistinct ==
  ASSUME NEW V, NEW K, NEW R, NEW s \in Seq(V), NEW r, NEW p, IsSortedBy(r, s, p, K, R),
         DistinctKeys(s, K)
  PROVE  DistinctKeys(r, K) /\ StrictlySorted(r, K, R)
<1>1. DOMAIN r = DOMAIN s /\ DOMAIN s = 1 .. Len(s) /\ Len(s) \in Nat
  BY SortedElements
<1>2. DistinctKeys(r, K)
  <2> SUFFICES ASSUME NEW i \in DOMAIN s, NEW j \in DOMAIN s, K[r[i]] = K[r[j]] PROVE i = j
    BY <1>1 DEF DistinctKeys
  <2>1. /\ p[i] \in DOMAIN s /\ p[j] \in DOMAIN s
        /\ p[i] = p[j] => i = j
    BY DEF IsSortedBy, Bijection, Injection, Surjection, IsInjective
  <2>2. r[i] = s[p[i]] /\ r[j] = s[p[j]]
    BY DEF IsSortedBy
  <2>3. p[i] = p[j]
    BY <2>1, <2>2 DEF DistinctKeys
  <2> QED BY <2>1, <2>3
<1>3. StrictlySorted(r, K, R)
  <2> SUFFICES ASSUME NEW k \in DOMAIN r, NEW l \in DOMAIN r, k < l
               PROVE  LessByKey(K, R, r[k], r[l])
    BY DEF StrictlySorted
  <2>1. k # l
    BY <1>1
  <2>2. K[r[k]] # K[r[l]]
    BY <1>2, <2>1 DEF DistinctKeys
  <2> QED BY <1>1, <2>2 DEF IsSortedBy
<1> QED BY <1>2, <1>3

\* A subsequence of a strictly sorted sequence is one.
LEMMA SubsequenceSorted ==
  ASSUME NEW V, NEW s \in Seq(V), NEW positions \in SUBSET DOMAIN s, NEW K, NEW R,
         StrictlySorted(s, K, R)
  PROVE  StrictlySorted(Subsequence(s, positions), K, R)
<1> DEFINE n == Cardinality(positions)
           a == Ascending(positions)
           t == Subsequence(s, positions)
<1>1. IsFiniteSet(positions) /\ positions \subseteq Int
  <2>1. Len(s) \in Nat /\ DOMAIN s = 1 .. Len(s)
    OBVIOUS
  <2>2. IsFiniteSet(1 .. Len(s)) /\ positions \subseteq 1 .. Len(s)
    BY <2>1, FS_Interval
  <2>3. 1 .. Len(s) \subseteq Int
    OBVIOUS
  <2> QED BY <2>2, <2>3, FS_Subset, Zenon
<1>2. /\ a \in Bijection(1 .. n, positions) /\ n \in Nat
      /\ \A i, j \in 1 .. n : i < j => a[i] < a[j]
  BY <1>1, AscendingOrder
<1>3. t = [k \in 1 .. n |-> s[a[k]]]
  BY DEF Subsequence
<1> HIDE DEF a, n, t
<1>4. \A k \in 1 .. n : a[k] \in DOMAIN s
  BY <1>2 DEF Bijection, Surjection
<1>5. ASSUME NEW k \in 1 .. n, NEW l \in 1 .. n, k < l PROVE LessByKey(K, R, t[k], t[l])
  <2>1. a[k] < a[l] /\ a[k] \in DOMAIN s /\ a[l] \in DOMAIN s
    BY <1>2, <1>4, <1>5
  <2>2. LessByKey(K, R, s[a[k]], s[a[l]])
    BY <2>1 DEF StrictlySorted
  <2> QED BY <1>3, <2>2
<1>6. StrictlySorted(t, K, R)
  BY <1>3, <1>5 DEF StrictlySorted
<1> QED BY <1>6 DEF t

----------------------------------------------------------------------------
(* Sequences one after the other *)

\* A flattened sequence is the last of the sequences it goes through.
LEMMA FlattenStates ==
  ASSUME NEW V, NEW seqs \in Seq(Seq(V))
  PROVE  \E f \in [0 .. Len(seqs) -> Seq(V)] :
           /\ f[0] = <<>>
           /\ \A k \in 1 .. Len(seqs) : f[k] = f[k - 1] \o seqs[k]
           /\ FlattenSeq(seqs) = f[Len(seqs)]
<1> DEFINE n == Len(seqs)
           A == Seq(V)
           H == [x \in A \X (1 .. n) |-> x[1] \o seqs[x[2]]]
           Rule(h) == h = [i \in 1 .. n |-> IF i = 1 THEN seqs[i] ELSE h[i - 1] \o seqs[i]]
           it == CHOOSE h : Rule(h)
<1>1. n \in Nat /\ DOMAIN seqs = 1 .. n /\ \A k \in 1 .. n : seqs[k] \in A
  OBVIOUS
<1>2. <<>> \in A
  OBVIOUS
<1>3. \A s, t \in A : s \o t \in A
  OBVIOUS
<1>4. \A s \in A : <<>> \o s = s
  OBVIOUS
<1> HIDE DEF A, n
<1>5. H \in [A \X (1 .. n) -> A]
  BY <1>1, <1>3
<1>6. PICK g \in [SUBSET (1 .. n) -> A] : IsFold(g, <<>>, n, H)
  <2> HIDE DEF H, Rule, it
  <2> QED BY <1>1, <1>2, <1>5, FoldExists
<1> DEFINE f == [k \in 0 .. n |-> g[1 .. k]]
<1>7. \A k \in 1 .. n : /\ 1 .. k \in SUBSET (1 .. n) /\ 1 .. k # {}
                        /\ Max(1 .. k) = k /\ (1 .. k) \ {k} = 1 .. k - 1
  <2> SUFFICES ASSUME NEW k \in 1 .. n
               PROVE  /\ 1 .. k \in SUBSET (1 .. n) /\ 1 .. k # {}
                      /\ Max(1 .. k) = k /\ (1 .. k) \ {k} = 1 .. k - 1
    OBVIOUS
  <2>1. k \in Nat /\ k \in 1 .. k /\ 1 .. k \in SUBSET (1 .. n)
    BY <1>1
  <2>2. Max(1 .. k) \in 1 .. k /\ k <= Max(1 .. k)
    BY <2>1, MaxOfSome
  <2> QED BY <2>1, <2>2
<1>8. \A k \in 0 .. n : 1 .. k \in SUBSET (1 .. n)
  BY <1>1
<1>9. f \in [0 .. n -> A] /\ f[0] = <<>>
  <2>1. 1 .. 0 = {} /\ 0 \in 0 .. n
    BY <1>1
  <2>2. g[{}] = <<>>
    <3>1. {} \in SUBSET (1 .. n)
      OBVIOUS
    <3> QED BY <1>6, <3>1, Zenon DEF IsFold
  <2> QED BY <1>6, <1>8, <2>1, <2>2
<1>10. \A k \in 1 .. n : f[k] = f[k - 1] \o seqs[k]
  <2> SUFFICES ASSUME NEW k \in 1 .. n PROVE f[k] = f[k - 1] \o seqs[k]
    OBVIOUS
  <2>1. k \in 0 .. n /\ k - 1 \in 0 .. n
    BY <1>1
  <2>2. g[1 .. k - 1] \in A
    BY <1>6, <1>8, <2>1
  <2> DEFINE t == 1 .. k
  <2>3. t \in SUBSET (1 .. n) /\ t # {} /\ Max(t) = k /\ t \ {Max(t)} = 1 .. k - 1
    BY <1>7
  <2>4. g[t] = H[<<g[t \ {Max(t)}], Max(t)>>]
    <3> HIDE DEF t, H
    <3> QED BY <1>6, <2>3 DEF IsFold
  <2>5. g[t] = H[<<g[1 .. k - 1], k>>]
    <3> HIDE DEF t, H
    <3> QED BY <2>3, <2>4
  <2>6. H[<<g[1 .. k - 1], k>>] = g[1 .. k - 1] \o seqs[k]
    BY <2>2
  <2> HIDE DEF H
  <2> QED BY <2>1, <2>5, <2>6
<1> HIDE DEF f, H
<1>11. Rule([k \in 1 .. n |-> f[k]])
  <2> SUFFICES ASSUME NEW k \in 1 .. n
               PROVE  f[k] = IF k = 1 THEN seqs[k] ELSE [j \in 1 .. n |-> f[j]][k - 1] \o seqs[k]
    OBVIOUS
  <2>1. CASE k = 1
    <3>1. f[k] = f[0] \o seqs[k]
      <4>1. f[k] = f[k - 1] \o seqs[k]
        BY <1>10
      <4>2. k - 1 = 0
        BY <2>1
      <4> QED BY <4>1, <4>2
    <3> QED BY <1>1, <1>4, <1>9, <2>1, <3>1
  <2>2. CASE k # 1
    <3>1. k - 1 \in 1 .. n
      BY <1>1, <2>2
    <3> QED BY <1>10, <2>2, <3>1
  <2> QED BY <2>1, <2>2
<1>12. Rule(it)
  BY <1>11, Zenon
<1>13. \A k \in 0 .. n : k \in {i \in 0 .. n : i = 0 \/ it[i] = f[i]}
  <2> DEFINE S == {i \in 0 .. n : i = 0 \/ it[i] = f[i]}
  <2>1. 0 \in S
    BY <1>1
  <2>2. ASSUME NEW k \in 1 .. n, k - 1 \in S PROVE k \in S
    <3>1. k \in 0 .. n /\ k \in Int
      BY <1>1
    <3>2. it[k] = IF k = 1 THEN seqs[k] ELSE it[k - 1] \o seqs[k]
      <4> HIDE DEF it
      <4> QED BY <1>12
    <3> HIDE DEF it
    <3>3. CASE k = 1
      <4>1. f[k] = f[0] \o seqs[k]
        <5>1. f[k] = f[k - 1] \o seqs[k]
          BY <1>10
        <5>2. k - 1 = 0
          BY <3>3
        <5> QED BY <5>1, <5>2
      <4> QED BY <1>1, <1>4, <1>9, <3>1, <3>2, <3>3, <4>1
    <3>4. CASE k # 1
      <4>1. f[k] = f[k - 1] \o seqs[k]
        BY <1>10
      <4>2. it[k - 1] = f[k - 1]
        BY <2>2, <3>1, <3>4
      <4>3. it[k] = it[k - 1] \o seqs[k]
        BY <3>2, <3>4
      <4> QED BY <3>1, <4>1, <4>2, <4>3
    <3> QED BY <3>3, <3>4
  <2> HIDE DEF S
  <2>3. \A k \in 0 .. n : k \in S
    BY <1>1, <2>1, <2>2, InductionUpTo
  <2> QED BY <2>3 DEF S
<1>14. FlattenSeq(seqs) = f[n]
  <2>1. CASE n = 0
    <3>1. FlattenSeq(seqs) = seqs
      BY <2>1, Zenon DEF FlattenSeq, n
    <3>2. seqs = <<>>
      BY <2>1 DEF n
    <3> QED BY <1>9, <2>1, <3>1, <3>2
  <2>2. CASE n # 0
    <3>1. FlattenSeq(seqs) = it[n]
      BY <2>2, Zenon DEF FlattenSeq, n
    <3>2. n \in 0 .. n
      BY <1>1
    <3> HIDE DEF it
    <3> QED BY <1>13, <2>2, <3>1, <3>2
  <2> QED BY <2>1, <2>2
<1> QED BY <1>9, <1>10, <1>14 DEF n, A

\* The element j of sequence i is at b[i][j]: every element has a position of its
\* own, and every position an element.
IsLayout(b, seqs, flat) ==
  /\ \A i \in DOMAIN seqs : \A j \in DOMAIN seqs[i] :
       b[i][j] \in DOMAIN flat /\ flat[b[i][j]] = seqs[i][j]
  /\ \A x \in DOMAIN flat : \E i \in DOMAIN seqs : \E j \in DOMAIN seqs[i] : b[i][j] = x
  /\ \A i, k \in DOMAIN seqs : \A j \in DOMAIN seqs[i], l \in DOMAIN seqs[k] :
       b[i][j] = b[k][l] => i = k /\ j = l

LEMMA FlattenLayout ==
  ASSUME NEW V, NEW seqs \in Seq(Seq(V))
  PROVE  FlattenSeq(seqs) \in Seq(V) /\ \E b : IsLayout(b, seqs, FlattenSeq(seqs))
<1> DEFINE n == Len(seqs)
<1>1. n \in Nat /\ DOMAIN seqs = 1 .. n /\ \A k \in 1 .. n : seqs[k] \in Seq(V)
  OBVIOUS
<1>2. PICK f \in [0 .. n -> Seq(V)] :
        /\ f[0] = <<>>
        /\ \A k \in 1 .. n : f[k] = f[k - 1] \o seqs[k]
        /\ FlattenSeq(seqs) = f[n]
  BY FlattenStates
<1> HIDE DEF n
<1> DEFINE size == [k \in 0 .. n |-> Len(f[k])]
           len == [k \in 1 .. n |-> Len(seqs[k])]
<1>3. /\ \A k \in 0 .. n : size[k] \in Nat /\ DOMAIN f[k] = 1 .. size[k]
      /\ \A k \in 1 .. n : len[k] \in Nat /\ DOMAIN seqs[k] = 1 .. len[k]
      /\ size[0] = 0
  <2>1. 0 \in 0 .. n
    BY <1>1
  <2>2. \A t \in Seq(V) : Len(t) \in Nat /\ DOMAIN t = 1 .. Len(t)
    OBVIOUS
  <2>3. \A k \in 0 .. n : size[k] \in Nat /\ DOMAIN f[k] = 1 .. size[k]
    BY <1>2, <2>2
  <2>4. \A k \in 1 .. n : len[k] \in Nat /\ DOMAIN seqs[k] = 1 .. len[k]
    BY <1>1, <2>2
  <2>5. size[0] = 0
    BY <1>2, <2>1
  <2> QED BY <2>3, <2>4, <2>5
<1>4. ASSUME NEW k \in 1 .. n
      PROVE  /\ k - 1 \in 0 .. n /\ k \in 0 .. n /\ size[k] = size[k - 1] + len[k]
             /\ \A x \in 1 .. size[k - 1] : f[k][x] = f[k - 1][x]
             /\ \A j \in 1 .. len[k] : f[k][size[k - 1] + j] = seqs[k][j]
  <2>1. k - 1 \in 0 .. n /\ k \in 0 .. n
    BY <1>1
  <2> DEFINE s == f[k - 1]
             t == seqs[k]
             r == f[k]
  <2>2. s \in Seq(V) /\ t \in Seq(V) /\ r = s \o t
    BY <1>1, <1>2, <2>1
  <2> HIDE DEF s, t, r
  <2>3. /\ Len(r) = Len(s) + Len(t)
        /\ \A x \in 1 .. Len(s) : r[x] = s[x]
        /\ \A j \in 1 .. Len(t) : r[Len(s) + j] = t[j]
    <3>1. Len(s) \in Nat /\ Len(t) \in Nat
      BY <2>2
    <3>2. /\ Len(s \o t) = Len(s) + Len(t)
          /\ \A i \in 1 .. Len(s) + Len(t) :
               (s \o t)[i] = IF i <= Len(s) THEN s[i] ELSE t[i - Len(s)]
      BY <2>2
    <3> QED BY <2>2, <3>1, <3>2
  <2> QED BY <2>1, <2>3 DEF s, t, r
<1> HIDE DEF size, len
<1> DEFINE Places(k) == \A i \in 1 .. k : \A j \in 1 .. len[i] :
                          /\ size[i - 1] + j \in 1 .. size[k]
                          /\ f[k][size[i - 1] + j] = seqs[i][j]
           Onto(k) == \A x \in 1 .. size[k] : \E i \in 1 .. k : \E j \in 1 .. len[i] :
                        x = size[i - 1] + j
           OneToOne(k) == \A i, l \in 1 .. k : \A j \in 1 .. len[i], m \in 1 .. len[l] :
                            size[i - 1] + j = size[l - 1] + m => i = l /\ j = m
           S == {k \in 0 .. n : Places(k) /\ Onto(k) /\ OneToOne(k)}
<1>5. 0 \in S
  <2>1. 1 .. size[0] = {} /\ 1 .. 0 = {} /\ 0 \in 0 .. n
    BY <1>1, <1>3
  <2> QED BY <2>1
<1>6. ASSUME NEW k \in 1 .. n, k - 1 \in S PROVE k \in S
  <2>1. /\ k - 1 \in 0 .. n /\ k \in 0 .. n /\ size[k] = size[k - 1] + len[k]
        /\ \A x \in 1 .. size[k - 1] : f[k][x] = f[k - 1][x]
        /\ \A j \in 1 .. len[k] : f[k][size[k - 1] + j] = seqs[k][j]
    BY <1>4
  <2>2. Places(k - 1) /\ Onto(k - 1) /\ OneToOne(k - 1)
    BY <1>6
  <2>3. \A i \in 1 .. k : i = k \/ i \in 1 .. k - 1
    BY <1>1
  <2>4. size[k - 1] \in Nat /\ size[k] \in Nat /\ len[k] \in Nat
    BY <1>3, <2>1
  <2>5. \A i \in 1 .. k - 1 : i \in 1 .. n /\ i - 1 \in 0 .. n
    BY <1>1
  <2>6. \A i \in 1 .. k - 1 : size[i - 1] \in Nat /\ len[i] \in Nat
    BY <1>3, <2>5
  <2>7. \A i \in 1 .. k - 1 : \A j \in 1 .. len[i] :
          /\ size[i - 1] + j \in 1 .. size[k - 1]
          /\ f[k - 1][size[i - 1] + j] = seqs[i][j]
    BY <2>2
  <2>8. \A x \in 1 .. size[k - 1] : \E i \in 1 .. k - 1 : \E j \in 1 .. len[i] :
          x = size[i - 1] + j
    BY <2>2
  <2>9. \A i, l \in 1 .. k - 1 : \A j \in 1 .. len[i], m \in 1 .. len[l] :
          size[i - 1] + j = size[l - 1] + m => i = l /\ j = m
    BY <2>2
  <2>10. Places(k)
    <3> SUFFICES ASSUME NEW i \in 1 .. k, NEW j \in 1 .. len[i]
                 PROVE  /\ size[i - 1] + j \in 1 .. size[k]
                        /\ f[k][size[i - 1] + j] = seqs[i][j]
      OBVIOUS
    <3>1. CASE i = k
      BY <2>1, <2>4, <3>1
    <3>2. CASE i \in 1 .. k - 1
      <4>1. /\ size[i - 1] + j \in 1 .. size[k - 1]
            /\ f[k - 1][size[i - 1] + j] = seqs[i][j]
        BY <2>7, <3>2
      <4>2. f[k][size[i - 1] + j] = f[k - 1][size[i - 1] + j]
        BY <2>1, <4>1
      <4>3. size[i - 1] + j \in 1 .. size[k]
        BY <2>1, <2>4, <4>1, SMTT(40)
      <4> QED BY <4>1, <4>2, <4>3
    <3> QED BY <2>3, <3>1, <3>2
  <2>11. Onto(k)
    <3> SUFFICES ASSUME NEW x \in 1 .. size[k]
                 PROVE  \E i \in 1 .. k : \E j \in 1 .. len[i] : x = size[i - 1] + j
      OBVIOUS
    <3>1. CASE x \in 1 .. size[k - 1]
      <4>1. PICK i \in 1 .. k - 1 : \E j \in 1 .. len[i] : x = size[i - 1] + j
        BY <2>8, <3>1
      <4>2. i \in 1 .. k
        BY <1>1
      <4> QED BY <4>1, <4>2
    <3>2. CASE x \notin 1 .. size[k - 1]
      <4> DEFINE j == x - size[k - 1]
      <4>1. x \in Int /\ size[k - 1] < x /\ x <= size[k - 1] + len[k]
        BY <2>1, <2>4, <3>2
      <4>2. j \in 1 .. len[k] /\ x = size[k - 1] + j
        BY <2>4, <4>1
      <4>3. k \in 1 .. k
        BY <1>1
      <4> HIDE DEF j
      <4> QED BY <4>2, <4>3
    <3> QED BY <3>1, <3>2
  <2>12. OneToOne(k)
    <3> SUFFICES ASSUME NEW i \in 1 .. k, NEW l \in 1 .. k, NEW j \in 1 .. len[i],
                        NEW m \in 1 .. len[l], size[i - 1] + j = size[l - 1] + m
                 PROVE  i = l /\ j = m
      OBVIOUS
    <3>1. CASE i = k /\ l = k
      BY <2>4, <3>1
    <3>2. CASE i \in 1 .. k - 1 /\ l \in 1 .. k - 1
      BY <2>9, <3>2
    <3>3. CASE i = k /\ l \in 1 .. k - 1
      <4>1. size[l - 1] + m \in 1 .. size[k - 1]
        BY <2>7, <3>3
      <4> QED BY <2>4, <3>3, <4>1
    <3>4. CASE i \in 1 .. k - 1 /\ l = k
      <4>1. size[i - 1] + j \in 1 .. size[k - 1]
        BY <2>7, <3>4
      <4> QED BY <2>4, <3>4, <4>1
    <3> QED BY <2>3, <3>1, <3>2, <3>3, <3>4
  <2> HIDE DEF Places, Onto, OneToOne
  <2> QED BY <2>1, <2>10, <2>11, <2>12
<1>7. n \in 0 .. n /\ Places(n) /\ Onto(n) /\ OneToOne(n)
  <2>1. \A k \in 0 .. n : k \in S
    <3> HIDE DEF S
    <3> QED BY <1>1, <1>5, <1>6, InductionUpTo
  <2>2. n \in 0 .. n
    BY <1>1
  <2> HIDE DEF Places, Onto, OneToOne
  <2> QED BY <2>1, <2>2
<1> DEFINE b == [i \in 1 .. n |-> [j \in 1 .. len[i] |-> size[i - 1] + j]]
           flat == f[n]
<1>8. DOMAIN flat = 1 .. size[n] /\ flat \in Seq(V)
  BY <1>2, <1>3, <1>7
<1>9. \A i \in 1 .. n : \A j \in 1 .. len[i] : b[i][j] = size[i - 1] + j
  OBVIOUS
<1> HIDE DEF flat, b, Places, Onto, OneToOne
<1>10. DOMAIN seqs = 1 .. n /\ \A i \in 1 .. n : DOMAIN seqs[i] = 1 .. len[i]
  BY <1>1, <1>3
<1>11. \A i \in 1 .. n : \A j \in 1 .. len[i] : b[i][j] \in DOMAIN flat /\ flat[b[i][j]] = seqs[i][j]
  BY <1>7, <1>8, <1>9 DEF Places, flat
<1>12. \A x \in DOMAIN flat : \E i \in 1 .. n : \E j \in 1 .. len[i] : b[i][j] = x
  <2> SUFFICES ASSUME NEW x \in 1 .. size[n]
               PROVE  \E i \in 1 .. n : \E j \in 1 .. len[i] : b[i][j] = x
    BY <1>8
  <2>1. PICK i \in 1 .. n : \E j \in 1 .. len[i] : x = size[i - 1] + j
    BY <1>7 DEF Onto
  <2> QED BY <1>9, <2>1
<1>13. ASSUME NEW i \in 1 .. n, NEW k \in 1 .. n, NEW j \in 1 .. len[i], NEW l \in 1 .. len[k],
              b[i][j] = b[k][l]
       PROVE  i = k /\ j = l
  <2>1. size[i - 1] + j = size[k - 1] + l
    BY <1>9, <1>13
  <2> QED BY <1>7, <2>1 DEF OneToOne
<1>14. IsLayout(b, seqs, flat)
  <2>1. \A i \in DOMAIN seqs : \A j \in DOMAIN seqs[i] :
          b[i][j] \in DOMAIN flat /\ flat[b[i][j]] = seqs[i][j]
    BY <1>10, <1>11
  <2>2. \A x \in DOMAIN flat : \E i \in DOMAIN seqs : \E j \in DOMAIN seqs[i] : b[i][j] = x
    BY <1>10, <1>12
  <2>3. \A i, k \in DOMAIN seqs : \A j \in DOMAIN seqs[i], l \in DOMAIN seqs[k] :
          b[i][j] = b[k][l] => i = k /\ j = l
    <3> SUFFICES ASSUME NEW i \in DOMAIN seqs, NEW k \in DOMAIN seqs,
                        NEW j \in DOMAIN seqs[i], NEW l \in DOMAIN seqs[k], b[i][j] = b[k][l]
                 PROVE  i = k /\ j = l
      OBVIOUS
    <3>1. i \in 1 .. n /\ k \in 1 .. n /\ j \in 1 .. len[i] /\ l \in 1 .. len[k]
      BY <1>10
    <3> QED BY <1>13, <3>1
  <2> QED BY <2>1, <2>2, <2>3, Zenon DEF IsLayout
<1> QED BY <1>2, <1>8, <1>14 DEF flat
=============================================================================
