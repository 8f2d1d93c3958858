-------------------------- MODULE FunctionsProofs --------------------------
(***************************************************************************)
(* The functions of the sequential code, for inputs of any size: what a    *)
(* diff reports, and the rest of what the caller of MCFunctions checks.    *)
(***************************************************************************)
EXTENDS MCFunctions, ScanSupportProofs

----------------------------------------------------------------------------
(* Diff *)

Distinct(s) == \A i, j \in DOMAIN s : s[i] = s[j] => i = j

MatchStates(V, current) == [taken : SUBSET DOMAIN current, unmatched : Seq(V)]

NothingMatched == [taken |-> {}, unmatched |-> <<>>]

\* The entries of current that equal e and are free.
FreeTwins(m, e, current) == {i \in DOMAIN current \ m.taken : current[i] = e}

\* An entry without a free twin is appended, the first free twin is taken.
LEMMA MatchStep ==
  ASSUME NEW V, NEW current \in Seq(V), NEW e \in V, NEW m \in MatchStates(V, current)
  PROVE  /\ Match(m, e, current) \in MatchStates(V, current)
         /\ FreeTwins(m, e, current) = {} =>
              /\ Match(m, e, current).taken = m.taken
              /\ Match(m, e, current).unmatched = Append(m.unmatched, e)
         /\ FreeTwins(m, e, current) # {} =>
              /\ Match(m, e, current).taken = m.taken \cup {Min(FreeTwins(m, e, current))}
              /\ Match(m, e, current).unmatched = m.unmatched
              /\ Min(FreeTwins(m, e, current)) \in FreeTwins(m, e, current)
<1> DEFINE free == {i \in DOMAIN current \ m.taken : current[i] = e}
<1>1. m = [taken |-> m.taken, unmatched |-> m.unmatched] /\ m.taken \in SUBSET DOMAIN current
      /\ m.unmatched \in Seq(V)
  BY DEF MatchStates
<1>2. free \in SUBSET Nat
  OBVIOUS
<1>3. free # {} => Min(free) \in free
  <2> HIDE DEF free
  <2> QED BY <1>2, MinOfSome
<1>4. ASSUME free = {}
      PROVE  Match(m, e, current) = [taken |-> m.taken, unmatched |-> Append(m.unmatched, e)]
  BY <1>1, <1>4 DEF Match
<1>5. ASSUME free # {}
      PROVE  Match(m, e, current)
               = [taken |-> m.taken \cup {Min(free)}, unmatched |-> m.unmatched]
  BY <1>1, <1>5 DEF Match
<1>6. free \subseteq DOMAIN current
  OBVIOUS
<1>7. Append(m.unmatched, e) \in Seq(V)
  BY <1>1
<1> HIDE DEF free
<1>8. Match(m, e, current) \in MatchStates(V, current)
  BY <1>1, <1>3, <1>4, <1>5, <1>6, <1>7 DEF MatchStates
<1>9. /\ free = {} => /\ Match(m, e, current).taken = m.taken
                       /\ Match(m, e, current).unmatched = Append(m.unmatched, e)
      /\ free # {} => /\ Match(m, e, current).taken = m.taken \cup {Min(free)}
                       /\ Match(m, e, current).unmatched = m.unmatched
  BY <1>4, <1>5
<1> QED BY <1>3, <1>8, <1>9, Zenon DEF free, FreeTwins

\* The matching is the last of the states it goes through.
LEMMA MatchedStates ==
  ASSUME NEW V, NEW previous \in Seq(V), NEW current \in Seq(V)
  PROVE  \E f \in [0 .. Len(previous) -> MatchStates(V, current)] :
           /\ f[0] = NothingMatched
           /\ \A k \in 1 .. Len(previous) : f[k] = Match(f[k - 1], previous[k], current)
           /\ Matched(previous, current) = f[Len(previous)]
<1> DEFINE n == Len(previous)
           A == MatchStates(V, current)
           H == [x \in A \X (1 .. n) |-> Match(x[1], previous[x[2]], current)]
           Rule(g) == g = [t \in SUBSET DOMAIN previous |->
                             IF t = {} THEN NothingMatched
                             ELSE Match(g[t \ {Max(t)}], previous[Max(t)], current)]
           it == CHOOSE g : Rule(g)
<1>1. n \in Nat /\ DOMAIN previous = 1 .. n /\ \A k \in 1 .. n : previous[k] \in V
  OBVIOUS
<1>2. NothingMatched \in A
  BY DEF NothingMatched, MatchStates
<1>3. H \in [A \X (1 .. n) -> A]
  <2>1. \A m \in A, e \in V : Match(m, e, current) \in A
    <3> HIDE DEF A
    <3> QED BY MatchStep, Zenon DEF A
  <2> HIDE DEF A
  <2> QED BY <1>1, <2>1
<1> HIDE DEF A, n
<1>4. PICK g \in [SUBSET (1 .. n) -> A] : IsFold(g, NothingMatched, n, H)
  <2> HIDE DEF H, Rule, it
  <2> QED BY <1>1, <1>2, <1>3, FoldExists
<1>5. \A t \in SUBSET (1 .. n) : t # {} => Max(t) \in 1 .. n
  BY <1>1, MaxOfSome
<1>6. Rule(g)
  <2>1. ASSUME NEW t \in SUBSET (1 .. n), t # {}
        PROVE  H[<<g[t \ {Max(t)}], Max(t)>>]
                 = Match(g[t \ {Max(t)}], previous[Max(t)], current)
    <3>1. g[t \ {Max(t)}] \in A /\ Max(t) \in 1 .. n
      BY <1>5, <2>1
    <3> QED BY <3>1
  <2>2. \A t \in SUBSET (1 .. n) : g[t] = IF t = {} THEN NothingMatched
                                          ELSE H[<<g[t \ {Max(t)}], Max(t)>>]
    BY <1>4 DEF IsFold
  <2> HIDE DEF H
  <2> QED BY <1>1, <2>1, <2>2
<1>7. Rule(it)
  BY <1>6, Zenon
<1> HIDE DEF H
<1>8. \A k \in 1 .. n : /\ 1 .. k \in SUBSET (1 .. n) /\ 1 .. k # {}
                        /\ Max(1 .. k) = k /\ (1 .. k) \ {k} = 1 .. k - 1
  <2> SUFFICES ASSUME NEW k \in 1 .. n
               PROVE  /\ 1 .. k \in SUBSET (1 .. n) /\ 1 .. k # {}
                      /\ Max(1 .. k) = k /\ (1 .. k) \ {k} = 1 .. k - 1
    OBVIOUS
  <2>1. k \in Nat /\ k \in 1 .. k /\ 1 .. k \in SUBSET (1 .. n)
    BY <1>1
  <2>2. Max(1 .. k) \in 1 .. k /\ k <= Max(1 .. k)
    BY <2>1, MaxOfSome
  <2> QED BY <2>1, <2>2
<1> DEFINE f == [k \in 0 .. n |-> it[1 .. k]]
<1>9. f[0] = NothingMatched
  <2>1. 1 .. 0 = {} /\ 0 \in 0 .. n /\ 1 .. 0 \in SUBSET DOMAIN previous
    BY <1>1
  <2> QED BY <1>7, <2>1
<1>10. \A k \in 1 .. n : f[k] = Match(f[k - 1], previous[k], current)
  <2> SUFFICES ASSUME NEW k \in 1 .. n
               PROVE  f[k] = Match(f[k - 1], previous[k], current)
    OBVIOUS
  <2>1. k \in 0 .. n /\ k - 1 \in 0 .. n
    BY <1>1
  <2>2. it[1 .. k] = Match(it[1 .. k - 1], previous[k], current)
    <3> DEFINE t == 1 .. k
    <3>1. t \in SUBSET DOMAIN previous /\ t # {} /\ Max(t) = k /\ t \ {Max(t)} = 1 .. k - 1
      BY <1>1, <1>8
    <3>2. it[t] = Match(it[t \ {Max(t)}], previous[Max(t)], current)
      <4> HIDE DEF t, it
      <4> QED BY <1>7, <3>1
    <3> HIDE DEF it
    <3> QED BY <3>1, <3>2
  <2> HIDE DEF it
  <2> QED BY <2>1, <2>2
<1>11. Matched(previous, current) = f[n]
  <2>1. Matched(previous, current) = it[1 .. n]
    BY <1>1 DEF Matched, FoldLeft, MapThenFoldSet, NothingMatched
  <2> HIDE DEF it
  <2> QED BY <1>1, <2>1
<1> HIDE DEF f
<1>12. \A k \in 0 .. n : k \in {i \in 0 .. n : f[i] \in A}
  <2>1. 0 \in {i \in 0 .. n : f[i] \in A}
    BY <1>1, <1>2, <1>9
  <2>2. ASSUME NEW k \in 1 .. n, k - 1 \in {i \in 0 .. n : f[i] \in A}
        PROVE  k \in {i \in 0 .. n : f[i] \in A}
    <3>1. Match(f[k - 1], previous[k], current) \in A
      BY <1>1, <2>2, MatchStep, Zenon DEF A
    <3> QED BY <1>1, <1>10, <3>1
  <2> QED BY <1>1, <2>1, <2>2, InductionUpTo
<1>13. f \in [0 .. n -> A]
  BY <1>12 DEF f
<1> QED BY <1>9, <1>10, <1>11, <1>13 DEF n, A

\* What the first k entries of previous leave of the two groups.
Taken(previous, current, k) ==
  {i \in DOMAIN current : \E j \in 1 .. k : current[i] = previous[j]}
Gone(previous, current, k) == {previous[j] : j \in 1 .. k} \ ToSet(current)

\* In the state m after k entries of previous, those without a twin are
\* unmatched and the twins of the others are taken.
MatchInv(V, previous, current, k, m) ==
  /\ m \in MatchStates(V, current)
  /\ m.taken = Taken(previous, current, k)
  /\ ToSet(m.unmatched) = Gone(previous, current, k)
  /\ IsFiniteSet(Gone(previous, current, k))
  /\ Len(m.unmatched) = Cardinality(Gone(previous, current, k))

LEMMA MatchInvStep ==
  ASSUME NEW V, NEW previous \in Seq(V), NEW current \in Seq(V),
         Distinct(previous), Distinct(current),
         NEW k \in 1 .. Len(previous), NEW m, MatchInv(V, previous, current, k - 1, m)
  PROVE  MatchInv(V, previous, current, k, Match(m, previous[k], current))
<1> DEFINE e == previous[k]
           free == FreeTwins(m, e, current)
           next == Match(m, e, current)
<1>1. /\ Len(previous) \in Nat /\ DOMAIN previous = 1 .. Len(previous) /\ k \in Nat
      /\ e \in V /\ 1 .. k = (1 .. k - 1) \cup {k}
      /\ m \in MatchStates(V, current) /\ m.unmatched \in Seq(V)
  BY DEF MatchInv, MatchStates
<1>2. /\ next \in MatchStates(V, current)
      /\ free = {} => next.taken = m.taken /\ next.unmatched = Append(m.unmatched, e)
      /\ free # {} => /\ next.taken = m.taken \cup {Min(free)}
                      /\ next.unmatched = m.unmatched
                      /\ Min(free) \in free
  BY <1>1, MatchStep, Zenon
<1>3. free = {i \in DOMAIN current : current[i] = e}
  <2>1. \A j \in 1 .. k - 1 : previous[j] # e
    BY <1>1 DEF Distinct
  <2>2. \A i \in DOMAIN current : current[i] = e => i \notin m.taken
    BY <2>1 DEF MatchInv, Taken
  <2> HIDE DEF e
  <2> QED BY <2>2 DEF FreeTwins
<1> HIDE DEF e, next, free
<1>4. CASE free = {}
  <2>1. e \notin ToSet(current)
    BY <1>3, <1>4 DEF ToSet
  <2>2. Taken(previous, current, k) = Taken(previous, current, k - 1)
    BY <1>1, <1>3, <1>4 DEF Taken, e
  <2>3. Gone(previous, current, k) = Gone(previous, current, k - 1) \cup {e}
    BY <1>1, <2>1 DEF Gone, e
  <2>4. e \notin Gone(previous, current, k - 1)
    BY <1>1 DEF Gone, e, Distinct
  <2>5. /\ IsFiniteSet(Gone(previous, current, k))
        /\ Cardinality(Gone(previous, current, k))
             = Cardinality(Gone(previous, current, k - 1)) + 1
    BY <2>3, <2>4, FS_AddElement DEF MatchInv
  <2>6. next.unmatched = Append(m.unmatched, e)
    BY <1>2, <1>4
  <2>7. /\ Len(next.unmatched) = Len(m.unmatched) + 1
        /\ ToSet(next.unmatched) = ToSet(m.unmatched) \cup {e}
    BY <1>1, <2>6, AppendedElements
  <2> QED BY <1>2, <1>4, <2>2, <2>3, <2>5, <2>7 DEF MatchInv, next, e
<1>5. CASE free # {}
  <2>1. e \in ToSet(current)
    BY <1>3, <1>5 DEF ToSet
  <2>2. free = {Min(free)}
    BY <1>2, <1>3, <1>5, ZenonT(40) DEF Distinct
  <2>3. Taken(previous, current, k) = Taken(previous, current, k - 1) \cup free
    BY <1>1, <1>3 DEF Taken, e
  <2>4. Gone(previous, current, k) = Gone(previous, current, k - 1)
    BY <1>1, <2>1 DEF Gone, e
  <2> QED BY <1>2, <1>5, <2>2, <2>3, <2>4 DEF MatchInv, next, e
<1> QED BY <1>4, <1>5

LEMMA MatchedExact ==
  ASSUME NEW V, NEW previous \in Seq(V), NEW current \in Seq(V),
         Distinct(previous), Distinct(current)
  PROVE  MatchInv(V, previous, current, Len(previous), Matched(previous, current))
<1> DEFINE n == Len(previous)
           Inv(k, m) == MatchInv(V, previous, current, k, m)
<1>1. PICK f \in [0 .. n -> MatchStates(V, current)] :
        /\ f[0] = NothingMatched
        /\ \A k \in 1 .. n : f[k] = Match(f[k - 1], previous[k], current)
        /\ Matched(previous, current) = f[n]
  BY MatchedStates
<1> DEFINE S == {k \in 0 .. n : Inv(k, f[k])}
<1>2. n \in Nat
  OBVIOUS
<1>3. 0 \in S
  <2>1. /\ Taken(previous, current, 0) = {} /\ Gone(previous, current, 0) = {}
        /\ IsFiniteSet({}) /\ Cardinality({}) = 0
    BY FS_EmptySet DEF Taken, Gone
  <2>2. Inv(0, NothingMatched)
    BY <2>1 DEF MatchInv, NothingMatched, MatchStates, ToSet
  <2> HIDE DEF Inv
  <2> QED BY <1>1, <1>2, <2>2
<1>4. ASSUME NEW k \in 1 .. n, k - 1 \in S PROVE k \in S
  <2>1. Inv(k - 1, f[k - 1])
    BY <1>4
  <2>2. Inv(k, Match(f[k - 1], previous[k], current))
    BY <2>1, MatchInvStep
  <2> HIDE DEF Inv
  <2> QED BY <1>1, <1>2, <2>2
<1>5. n \in S
  <2>1. \A k \in 0 .. n : k \in S
    <3> HIDE DEF S, n
    <3> QED BY <1>2, <1>3, <1>4, InductionUpTo
  <2> HIDE DEF S
  <2> QED BY <1>2, <2>1
<1> QED BY <1>1, <1>5

\* The elements left over are those of current that are not in previous, each
\* once.
LEMMA UntakenExact ==
  ASSUME NEW V, NEW previous \in Seq(V), NEW current \in Seq(V), Distinct(current)
  PROVE  LET rest == Untaken(current, Taken(previous, current, Len(previous)))
             new  == ToSet(current) \ ToSet(previous)
         IN  rest \in Seq(V) /\ ToSet(rest) = new /\ Len(rest) = Cardinality(new)
<1> DEFINE places == DOMAIN current \ Taken(previous, current, Len(previous))
           rest   == Subsequence(current, places)
           new    == ToSet(current) \ ToSet(previous)
           at     == [i \in places |-> current[i]]
<1>1. {current[i] : i \in places} = new
  <2>1. DOMAIN previous = 1 .. Len(previous)
    OBVIOUS
  <2> QED BY <2>1 DEF Taken, ToSet
<1>2. places \in SUBSET DOMAIN current
  OBVIOUS
<1>3. IsFiniteSet(places)
  <2>1. Len(current) \in Nat /\ DOMAIN current = 1 .. Len(current)
    OBVIOUS
  <2>2. IsFiniteSet(DOMAIN current)
    BY <2>1, FS_Interval
  <2> HIDE DEF places
  <2> QED BY <1>2, <2>2, FS_Subset
<1> HIDE DEF places
<1>4. at \in Bijection(places, new)
  <2>1. at \in [places -> new] /\ \A x \in new : \E i \in places : at[i] = x
    BY <1>1
  <2>2. \A i, j \in places : at[i] = at[j] => i = j
    BY <1>2 DEF Distinct
  <2> HIDE DEF at, new
  <2> QED BY <2>1, <2>2 DEF Bijection, Injection, Surjection, IsInjective
<1>5. Cardinality(new) = Cardinality(places)
  <2>1. at \in Surjection(places, new) /\ at \in Injection(places, new)
    BY <1>4 DEF Bijection
  <2> HIDE DEF at, new
  <2> QED BY <1>3, <2>1, FS_Surjection
<1>6. /\ rest \in Seq(V) /\ Len(rest) = Cardinality(places) /\ Cardinality(places) \in Nat
      /\ {rest[k] : k \in 1 .. Cardinality(places)} = {current[i] : i \in places}
  BY <1>2, SubsequenceType
<1> HIDE DEF rest, new
<1>7. DOMAIN rest = 1 .. Cardinality(places)
  BY <1>6
<1>8. ToSet(rest) = new
  BY <1>1, <1>6, <1>7 DEF ToSet
<1> QED BY <1>5, <1>6, <1>8, Zenon DEF rest, new, places, Untaken

\* The diff d of one key reports each entry that is new or gone, once.
IsExact(d, previous, current) ==
  LET gone == ToSet(previous) \ ToSet(current)
      new  == ToSet(current) \ ToSet(previous)
  IN  /\ ToSet(d.changed) \cup ToSet(d.added) = new
      /\ Len(d.changed) + Len(d.added) = Cardinality(new)
      /\ ToSet(d.removed) \subseteq gone
      /\ Len(d.changed) + Len(d.removed) = Cardinality(gone)
      /\ d.removed = <<>> \/ d.added = <<>>

\* What DiffGroup says of one key is the truth, for groups of any length
\* without duplicates.
LEMMA DiffGroupExact ==
  ASSUME NEW V, NEW previous \in Seq(V), NEW current \in Seq(V),
         Distinct(previous), Distinct(current)
  PROVE  IsExact(DiffGroup(previous, current), previous, current)
<1> DEFINE d    == DiffGroup(previous, current)
           gone == ToSet(previous) \ ToSet(current)
           new  == ToSet(current) \ ToSet(previous)
           m    == Matched(previous, current)
           rest == Untaken(current, m.taken)
           changed == ChangedCount(m.unmatched, rest)
<1>1. /\ m.unmatched \in Seq(V) /\ ToSet(m.unmatched) = gone
      /\ Len(m.unmatched) = Cardinality(gone) /\ m.taken = Taken(previous, current, Len(previous))
  <2>1. Gone(previous, current, Len(previous)) = gone
    <3>1. DOMAIN previous = 1 .. Len(previous)
      OBVIOUS
    <3> QED BY <3>1 DEF Gone, ToSet
  <2>2. MatchInv(V, previous, current, Len(previous), m)
    BY MatchedExact
  <2> HIDE DEF m, gone
  <2> QED BY <2>1, <2>2 DEF MatchInv, MatchStates
<1>2. rest \in Seq(V) /\ ToSet(rest) = new /\ Len(rest) = Cardinality(new)
  <2> HIDE DEF m
  <2> QED BY <1>1, UntakenExact, Zenon
<1>3. /\ d.removed = SubSeq(m.unmatched, changed + 1, Len(m.unmatched))
      /\ d.added = SubSeq(rest, changed + 1, Len(rest))
      /\ d.changed = SubSeq(rest, 1, changed)
  <2> HIDE DEF m, rest, changed
  <2>1. d = [removed |-> SubSeq(m.unmatched, changed + 1, Len(m.unmatched)),
             added   |-> SubSeq(rest, changed + 1, Len(rest)),
             changed |-> SubSeq(rest, 1, changed)]
    BY Zenon DEF DiffGroup, m, rest, changed
  <2> HIDE DEF d
  <2> DEFINE removed == SubSeq(m.unmatched, changed + 1, Len(m.unmatched))
             added   == SubSeq(rest, changed + 1, Len(rest))
             kept    == SubSeq(rest, 1, changed)
  <2>2. d = [removed |-> removed, added |-> added, changed |-> kept]
    BY <2>1, Zenon
  <2>3. d.removed = removed /\ d.added = added /\ d.changed = kept
    <3> HIDE DEF removed, added, kept
    <3> QED BY <2>2
  <2> QED BY <2>3, Zenon
<1> HIDE DEF m, rest, d, gone, new
<1>4. /\ changed \in 0 .. Len(m.unmatched) /\ changed \in 0 .. Len(rest)
      /\ changed = Len(m.unmatched) \/ changed = Len(rest)
  <2>1. Len(m.unmatched) \in Nat /\ Len(rest) \in Nat
    BY <1>1, <1>2
  <2>2. changed = IF Len(m.unmatched) <= Len(rest) THEN Len(m.unmatched) ELSE Len(rest)
    <3> DEFINE a == Len(m.unmatched)
               b == Len(rest)
    <3>1. changed = Min({a, b})
      BY Zenon DEF ChangedCount
    <3> HIDE DEF changed
    <3>2. a \in Int /\ b \in Int
      BY <2>1
    <3> HIDE DEF a, b
    <3>3. Min({a, b}) = IF a <= b THEN a ELSE b
      BY <3>2, MinOfTwo, Zenon
    <3> QED BY <3>1, <3>3, Zenon DEF a, b
  <2> HIDE DEF changed
  <2> QED BY <2>1, <2>2
<1> HIDE DEF changed
<1>5. /\ Len(d.changed) = changed /\ Len(d.added) = Len(rest) - changed
      /\ ToSet(d.changed) \cup ToSet(d.added) = ToSet(rest) /\ d.added \in Seq(V)
  <2>1. /\ SubSeq(rest, changed + 1, Len(rest)) \in Seq(V)
        /\ Len(SubSeq(rest, 1, changed)) = changed
        /\ Len(SubSeq(rest, changed + 1, Len(rest))) = Len(rest) - changed
        /\ ToSet(SubSeq(rest, 1, changed)) \cup ToSet(SubSeq(rest, changed + 1, Len(rest)))
             = ToSet(rest)
    BY <1>2, <1>4, SplitAt, ZenonT(40)
  <2> QED BY <1>3, <2>1, Zenon
<1>6. /\ Len(d.removed) = Len(m.unmatched) - changed /\ d.removed \in Seq(V)
      /\ ToSet(d.removed) \subseteq ToSet(m.unmatched)
  <2>1. /\ Len(d.removed) = Len(m.unmatched) - changed /\ d.removed \in Seq(V)
        /\ ToSet(SubSeq(m.unmatched, 1, changed)) \cup ToSet(d.removed) = ToSet(m.unmatched)
    <3> DEFINE s == m.unmatched
    <3>1. s \in Seq(V) /\ changed \in 0 .. Len(s)
      BY <1>1, <1>4
    <3>2. /\ SubSeq(s, changed + 1, Len(s)) \in Seq(V)
          /\ Len(SubSeq(s, changed + 1, Len(s))) = Len(s) - changed
          /\ ToSet(SubSeq(s, 1, changed)) \cup ToSet(SubSeq(s, changed + 1, Len(s))) = ToSet(s)
      <4> HIDE DEF s
      <4> QED BY <3>1, SplitAt, Zenon
    <3> QED BY <1>3, <3>2, Zenon
  <2> QED BY <2>1
<1>7. Len(m.unmatched) \in Nat /\ Len(rest) \in Nat /\ changed \in Nat
  BY <1>1, <1>2, <1>4
<1>8. /\ Len(d.changed) + Len(d.added) = Cardinality(new)
      /\ Len(d.changed) + Len(d.removed) = Cardinality(gone)
  BY <1>1, <1>2, <1>5, <1>6, <1>7
<1>9. d.removed = <<>> \/ d.added = <<>>
  <2>1. Len(d.removed) = 0 \/ Len(d.added) = 0
    BY <1>4, <1>5, <1>6, <1>7
  <2> QED BY <1>5, <1>6, <2>1
<1>10. /\ ToSet(d.changed) \cup ToSet(d.added) = new
       /\ ToSet(d.removed) \subseteq gone
  BY <1>1, <1>2, <1>5, <1>6
<1> QED BY <1>8, <1>9, <1>10, Zenon DEF d, gone, new, IsExact

----------------------------------------------------------------------------
(* Buffers *)

\* The first capacity is the one given, and the next twice the last one, but
\* no more than the largest.
LEMMA CapacityGrows ==
  ASSUME NEW first \in Nat \ {0}, NEW max \in Nat \ {0}, first <= max
  PROVE  /\ Capacity(first, max, 0) = first
         /\ \A i \in Nat : /\ Capacity(first, max, i) \in 1 .. max
                           /\ Capacity(first, max, i + 1) = Min({Capacity(first, max, i) * 2, max})
<1> DEFINE Rule(c) == c = [k \in Nat |-> IF k = 0 THEN first ELSE Min({c[k - 1] * 2, max})]
           H == [x \in 1 .. max |-> Min({x * 2, max})]
           it == CHOOSE c : Rule(c)
<1>1. H \in [1 .. max -> 1 .. max]
  <2>1. ASSUME NEW x \in 1 .. max PROVE Min({x * 2, max}) \in 1 .. max
    <3>1. x * 2 \in Int /\ x * 2 >= 1 /\ max \in Int /\ max >= 1
      OBVIOUS
    <3>2. Min({x * 2, max}) = IF x * 2 <= max THEN x * 2 ELSE max
      BY <3>1, MinOfTwo
    <3> QED BY <3>1, <3>2
  <2> QED BY <2>1
<1>2. first \in 1 .. max
  OBVIOUS
<1>3. PICK c \in [Nat -> 1 .. max] : IsRecursion(c, first, H)
  <2> HIDE DEF H
  <2> QED BY <1>1, <1>2, RecursionExists
<1>4. Rule(c)
  <2>1. \A k \in Nat : c[k] = IF k = 0 THEN first ELSE Min({c[k - 1] * 2, max})
    <3> SUFFICES ASSUME NEW k \in Nat, k # 0 PROVE c[k] = Min({c[k - 1] * 2, max})
      BY <1>3 DEF IsRecursion
    <3>1. k - 1 \in Nat /\ (k - 1) + 1 = k
      OBVIOUS
    <3>2. c[k] = H[c[k - 1]] /\ c[k - 1] \in 1 .. max
      BY <1>3, <3>1 DEF IsRecursion
    <3> QED BY <3>2
  <2> QED BY <2>1
<1>5. Rule(it)
  BY <1>4, Zenon
<1>6. \A i : Capacity(first, max, i) = it[i]
  BY DEF Capacity
<1> HIDE DEF it
<1>7. /\ it[0] = first
      /\ \A i \in Nat : it[i + 1] = Min({it[i] * 2, max})
  <2>1. \A k \in Nat : it[k] = IF k = 0 THEN first ELSE Min({it[k - 1] * 2, max})
    BY <1>5
  <2>2. \A i \in Nat : i + 1 \in Nat /\ i + 1 # 0 /\ (i + 1) - 1 = i
    OBVIOUS
  <2> HIDE DEF Rule
  <2>3. ASSUME NEW i \in Nat PROVE it[i + 1] = Min({it[i] * 2, max})
    <3>1. it[i + 1] = Min({it[(i + 1) - 1] * 2, max})
      BY <2>1, <2>2, Zenon
    <3> QED BY <2>2, <3>1
  <2> QED BY <2>1, <2>3
<1> HIDE DEF Rule
<1> DEFINE S == {i \in Nat : it[i] \in 1 .. max}
<1>8. 0 \in S
  BY <1>2, <1>7
<1>9. ASSUME NEW i \in S PROVE i + 1 \in S
  <2>1. i \in Nat /\ it[i] \in 1 .. max
    OBVIOUS
  <2>2. H[it[i]] = Min({it[i] * 2, max})
    BY <2>1
  <2>3. H[it[i]] \in 1 .. max
    <3> HIDE DEF H
    <3> QED BY <1>1, <2>1
  <2>4. it[i + 1] \in 1 .. max
    BY <1>7, <2>1, <2>2, <2>3, Zenon
  <2> QED BY <2>1, <2>4
<1>10. S = Nat
  <2>1. S \in SUBSET Nat
    OBVIOUS
  <2> HIDE DEF S
  <2> QED BY <1>8, <1>9, <2>1, NatInductionOnSets
<1> QED BY <1>6, <1>7, <1>10

\* So many calls are enough to come to the largest buffer.
Enough(first, max, calls) == \E i \in 1 .. calls : Capacity(first, max, i - 1) = max

\* What ListProcessFds lists is what there was at the call that ended the loop,
\* or as much of it as the largest buffer takes, provided the loop has enough
\* calls to come to that buffer (FdListingIsComplete, for any number of calls).
THEOREM FdListingComplete ==
  ASSUME NEW first \in Nat \ {0}, NEW max \in Nat \ {0}, first <= max,
         NEW calls \in Nat, NEW there \in [1 .. calls -> Nat],
         Enough(first, max, calls)
  PROVE  /\ ListedFds(first, max, there).calls \in 1 .. calls
         /\ ListedFds(first, max, there).count
              = Min({there[ListedFds(first, max, there).calls], max})
<1> DEFINE filled(i) == Min({there[i], Capacity(first, max, i - 1)})
           kept(i)   == filled(i) \div 1
           ends      == {i \in DOMAIN there :
                           filled(i) = 0 \/ IsComplete(kept(i), Capacity(first, max, i - 1), max)}
           last      == Min(ends)
<1>1. DOMAIN there = 1 .. calls
  OBVIOUS
<1>2. ends \in SUBSET Nat /\ ends # {}
  <2>1. PICK i \in 1 .. calls : Capacity(first, max, i - 1) = max
    BY DEF Enough
  <2>2. i \in ends
    BY <1>1, <2>1 DEF IsComplete
  <2>3. \A j \in ends : j \in DOMAIN there
    OBVIOUS
  <2>4. \A j \in ends : j \in Nat
    BY <1>1, <2>3
  <2> HIDE DEF ends
  <2> QED BY <2>2, <2>4
<1>3. last \in ends
  <2> HIDE DEF ends
  <2> QED BY <1>2, MinOfSome
<1>4. ListedFds(first, max, there) = [calls |-> last, count |-> kept(last)]
  BY Zenon DEF ListedFds, Listed
<1> HIDE DEF last
<1>5. ListedFds(first, max, there).calls = last /\ ListedFds(first, max, there).count = kept(last)
  <2> HIDE DEF kept
  <2> QED BY <1>4
<1>6. last \in 1 .. calls /\ last - 1 \in Nat /\ there[last] \in Nat
  BY <1>3
<1>7. Capacity(first, max, last - 1) \in 1 .. max
  BY <1>6, CapacityGrows
<1>8. filled(last) = IF there[last] <= Capacity(first, max, last - 1) THEN there[last]
                     ELSE Capacity(first, max, last - 1)
  BY <1>6, <1>7, MinOfTwo, SMTT(40)
<1>9. Min({there[last], max}) = IF there[last] <= max THEN there[last] ELSE max
  BY <1>6, MinOfTwo
<1>10. \/ filled(last) = 0
       \/ kept(last) < Capacity(first, max, last - 1)
       \/ Capacity(first, max, last - 1) = max
  BY <1>3 DEF IsComplete
<1>11. kept(last) = filled(last)
  <2>1. filled(last) \in Nat
    <3> HIDE DEF filled
    <3> QED BY <1>6, <1>7, <1>8
  <2> HIDE DEF filled
  <2> QED BY <2>1
<1> HIDE DEF filled, kept, ends
<1>12. kept(last) = Min({there[last], max})
  BY <1>6, <1>7, <1>8, <1>9, <1>10, <1>11
<1> QED BY <1>5, <1>6, <1>12

\* ListAllPids never asks for its buffer to grow, however many processes there
\* are: its one call ends the loop, and what is kept is a quarter of what the
\* first buffer took.
THEOREM PidBufferStays ==
  ASSUME NEW first \in Nat \ {0}, NEW max \in Nat \ {0}, first <= max,
         NEW there \in Seq(Nat), there # <<>>
  PROVE  Listed(first, max, there, SizeOfPid)
           = [calls |-> 1, count |-> Min({there[1], first}) \div 4]
<1> DEFINE filled(i) == Min({there[i], Capacity(first, max, i - 1)})
           kept(i)   == filled(i) \div SizeOfPid
           ends      == {i \in DOMAIN there :
                           filled(i) = 0 \/ IsComplete(kept(i), Capacity(first, max, i - 1), max)}
<1>1. 1 \in DOMAIN there /\ there[1] \in Nat /\ DOMAIN there = 1 .. Len(there) /\ Len(there) \in Nat
  OBVIOUS
<1>2. Capacity(first, max, 1 - 1) = first
  BY CapacityGrows
<1>3. filled(1) = Min({there[1], first})
  BY <1>2
<1>4. filled(1) \in 0 .. first
  BY <1>1, <1>3, MinOfTwo
<1>5. kept(1) = filled(1) \div 4 /\ kept(1) < first
  <2>1. kept(1) = filled(1) \div 4
    BY DEF SizeOfPid
  <2> HIDE DEF filled, kept
  <2> QED BY <1>4, <2>1
<1>6. 1 \in ends
  BY <1>1, <1>2, <1>5 DEF IsComplete
<1>7. ends \in SUBSET Nat /\ \A i \in ends : i >= 1
  BY <1>1
<1> HIDE DEF ends
<1>8. Min(ends) = 1
  <2>1. Min(ends) \in ends /\ \A i \in ends : Min(ends) <= i
    BY <1>6, <1>7, MinOfSome
  <2> DEFINE n == Min(ends)
  <2>2. n \in Nat /\ n >= 1 /\ n <= 1
    BY <1>6, <1>7, <2>1
  <2> HIDE DEF n
  <2>3. n = 1
    BY <2>2
  <2> QED BY <2>3 DEF n
<1>9. Listed(first, max, there, SizeOfPid) = [calls |-> Min(ends), count |-> kept(Min(ends))]
  BY Zenon DEF Listed, ends
<1> HIDE DEF kept, filled
<1> QED BY <1>3, <1>5, <1>8, <1>9 DEF filled

----------------------------------------------------------------------------
(* The calls *)

\* A caller passes to each function only what it is for.
CallInv ==
  /\ call.function = "diff" =>
       call.previous \in [EntryKeys -> Groups] /\ call.current \in [EntryKeys -> Groups]
  /\ call.function = "finalize" => call.entries \in Seq(ReadEntries)
  /\ call.function = "append" =>
       /\ call.entries \in Seq(ReadEntries)
       /\ \E cached \in Seq(CachedEntries) : call.cached = FinalizeSnapshot(cached)
  /\ call.function = "scan" =>
       call.pids \in Seq(1 .. 3) \ {<<>>} /\ call.workers \in Nat \ {0}
  /\ call.function = "report" => call.socket \in Sockets
  /\ call.function = "list" =>
       /\ call.first \in 1 .. MaxCapacity /\ 4 * call.first >= MaxCapacity
       /\ call.there \in [1 .. 3 -> 0 .. MaxThere]
  /\ call.function = "layout" =>
       /\ call.size \in Sizes /\ call.height \in Heights /\ call.expanded \in BOOLEAN
       /\ call.selected_row \in 0 .. call.size - 1

\* A table of file descriptors begins with some capacity from the smallest to
\* the largest.
LEMMA FdCapacityInRange ==
  ASSUME NEW hint \in 0 .. MaxCapacity + 1, NEW first \in Capacities
  PROVE  /\ FdCapacity(hint, first, MaxCapacity) \in 1 .. MaxCapacity
         /\ 4 * FdCapacity(hint, first, MaxCapacity) >= MaxCapacity
<1>1. first \in Nat \ {0} /\ 4 * first >= MaxCapacity /\ MaxCapacity \in Nat \ {0}
  BY InputsAssumption
<1>2. hint \in Int /\ first \in Int
  BY <1>1
<1> DEFINE larger == Max({hint, first})
<1>3. larger = IF hint >= first THEN hint ELSE first
  BY <1>2, MaxOfTwo
<1> HIDE DEF larger
<1>4. larger \in Nat \ {0} /\ larger >= first
  BY <1>1, <1>2, <1>3
<1>5. Min({larger, MaxCapacity}) = IF larger <= MaxCapacity THEN larger ELSE MaxCapacity
  BY <1>1, <1>4, MinOfTwo
<1>6. /\ Min({larger, MaxCapacity}) \in 1 .. MaxCapacity
      /\ 4 * Min({larger, MaxCapacity}) >= MaxCapacity
  BY <1>1, <1>4, <1>5
<1> QED BY <1>6 DEF FdCapacity, larger

\* The inputs are sequences.
LEMMA SeqOfIsSeq ==
  ASSUME NEW S, NEW n \in Nat
  PROVE  SeqOf(S, n) \subseteq Seq(S)
BY DEF SeqOf

LEMMA CallInvariance == Spec => []CallInv
<1>1. Init => CallInv
  BY DEF Init, Idle, CallInv
<1>2. CallInv /\ [Next]_call => CallInv'
  <2> SUFFICES ASSUME CallInv, [Next]_call PROVE CallInv'
    OBVIOUS
  <2>1. CASE CallDiff
    BY <2>1 DEF CallDiff, CallInv
  <2>2. CASE CallList
    <3>1. PICK hint \in 0 .. MaxCapacity + 1, first \in Capacities,
               there \in [1 .. 3 -> 0 .. MaxThere] :
            call' = [function |-> "list", first |-> FdCapacity(hint, first, MaxCapacity),
                     there |-> there]
      BY <2>2 DEF CallList
    <3>2. /\ FdCapacity(hint, first, MaxCapacity) \in 1 .. MaxCapacity
          /\ 4 * FdCapacity(hint, first, MaxCapacity) >= MaxCapacity
      BY FdCapacityInRange
    <3> QED BY <3>1, <3>2 DEF CallInv
  <2>3. CASE CallLayout
    BY <2>3 DEF CallLayout, CallInv
  <2>4. CASE CallFinalize
    <3>1. PICK entries \in SeqOf(ReadEntries, MaxEntries) :
            call' = [function |-> "finalize", entries |-> entries]
      BY <2>4 DEF CallFinalize
    <3>2. entries \in Seq(ReadEntries)
      BY SeqOfIsSeq, InputsAssumption
    <3> QED BY <3>1, <3>2 DEF CallInv
  <2>5. CASE CallAppend
    <3>1. PICK entries \in SeqOf(ReadEntries, 2), cached \in SeqOf(CachedEntries, 2) :
            call' = [function |-> "append", entries |-> entries,
                     cached |-> FinalizeSnapshot(cached)]
      BY <2>5 DEF CallAppend
    <3>2. entries \in Seq(ReadEntries) /\ cached \in Seq(CachedEntries)
      BY SeqOfIsSeq
    <3> QED BY <3>1, <3>2 DEF CallInv
  <2>6. CASE CallScan
    <3>1. PICK pids \in SeqOf(1 .. 3, MaxListing) \ {<<>>}, workers \in Workers :
            call' = [function |-> "scan", pids |-> pids, workers |-> workers]
      BY <2>6 DEF CallScan
    <3>2. pids \in Seq(1 .. 3) \ {<<>>} /\ workers \in Nat \ {0}
      BY SeqOfIsSeq, InputsAssumption
    <3> QED BY <3>1, <3>2 DEF CallInv
  <2>7. CASE CallReport
    BY <2>7 DEF CallReport, CallInv
  <2>8. CASE CallListPids
    BY <2>8 DEF CallListPids, CallInv
  <2>9. CASE call' = Idle \/ UNCHANGED call
    BY <2>9 DEF Idle, CallInv
  <2> QED BY <2>1, <2>2, <2>3, <2>4, <2>5, <2>6, <2>7, <2>8, <2>9 DEF Next, Call
<1> QED BY <1>1, <1>2, PTL DEF Spec

\* A group has no entry twice.
LEMMA GroupsDistinct ==
  ASSUME NEW g \in Groups
  PROVE  g \in Seq(Values) /\ Distinct(g)
<1>1. Cardinality(Names) \in Nat
  BY InputsAssumption, FS_CardinalityType
<1>2. PICK m \in 0 .. Cardinality(Names) : g \in [1 .. m -> Values]
  BY DEF Groups, SeqOf
<1>3. m \in Nat /\ g \in Seq(Values)
  BY <1>1, <1>2
<1>4. ASSUME NEW i \in DOMAIN g, NEW j \in DOMAIN g, g[i] = g[j] PROVE i = j
  <2>1. g[i] \in Values /\ g[i].name \in Int
    <3>1. g[i] \in Values
      BY <1>2
    <3> QED BY <3>1, InputsAssumption DEF Values
  <2>2. i \in Int /\ j \in Int
    BY <1>2
  <2>3. ~(i < j) /\ ~(j < i)
    BY <1>4, <2>1 DEF Groups
  <2> QED BY <2>2, <2>3
<1> QED BY <1>3, <1>4 DEF Distinct

\* The diff of two snapshots says of each key what is new, changed and gone,
\* each entry once (DiffIsExact).
THEOREM DiffExact == Spec => []DiffIsExact
<1>1. CallInv => DiffIsExact
  <2> SUFFICES ASSUME CallInv, call.function = "diff", NEW key \in EntryKeys
               PROVE  IsExact(DiffSnapshots(call.previous, call.current)[key],
                              call.previous[key], call.current[key])
    BY Zenon DEF DiffIsExact, IsExact
  <2>1. call.previous[key] \in Groups /\ call.current[key] \in Groups
        /\ DOMAIN call.current = EntryKeys
    BY DEF CallInv
  <2>2. DiffSnapshots(call.previous, call.current)[key]
          = DiffGroup(call.previous[key], call.current[key])
    BY <2>1 DEF DiffSnapshots
  <2>3. /\ call.previous[key] \in Seq(Values) /\ Distinct(call.previous[key])
        /\ call.current[key] \in Seq(Values) /\ Distinct(call.current[key])
    BY <2>1, GroupsDistinct
  <2> QED BY <2>2, <2>3, DiffGroupExact
<1> QED BY <1>1, CallInvariance, PTL

\* What is read from a process is a socket entry of one descriptor.
LEMMA ReadEntriesType == ReadEntries \subseteq {e \in SocketEntries : e.fd_count = 1}
<1>1. ASSUME NEW pid \in Int, NEW name \in Int, NEW port \in Int, NEW protocol \in Int,
             NEW state \in SocketStates
      PROVE  /\ Entry(pid, name, port, protocol, state) \in SocketEntries
             /\ Entry(pid, name, port, protocol, state).fd_count = 1
  BY DEF Entry, SocketEntries
<1>2. "listen" \in SocketStates /\ "unknown" \in SocketStates /\ "established" \in SocketStates
  BY DEF SocketStates
<1>3. \A state \in SocketStates : /\ Entry(1, 1, 80, 0, state) \in SocketEntries
                                   /\ Entry(1, 1, 80, 0, state).fd_count = 1
  BY <1>1
<1>4. \A state \in {"listen", "unknown"} : /\ Entry(1, 2, 80, 0, state) \in SocketEntries
                                            /\ Entry(1, 2, 80, 0, state).fd_count = 1
  BY <1>1, <1>2
<1>5. /\ Entry(1, 1, 80, 1, "unknown") \in SocketEntries
      /\ Entry(1, 1, 80, 1, "unknown").fd_count = 1
      /\ Entry(2, 1, 53, 1, "unknown") \in SocketEntries
      /\ Entry(2, 1, 53, 1, "unknown").fd_count = 1
  BY <1>1, <1>2
<1>6. ASSUME NEW e \in ReadEntries PROVE e \in SocketEntries /\ e.fd_count = 1
  <2>1. \/ \E state \in SocketStates : e = Entry(1, 1, 80, 0, state)
        \/ \E state \in {"listen", "unknown"} : e = Entry(1, 2, 80, 0, state)
        \/ e = Entry(1, 1, 80, 1, "unknown")
        \/ e = Entry(2, 1, 53, 1, "unknown")
    BY DEF ReadEntries
  <2> QED BY <1>3, <1>4, <1>5, <2>1
<1> QED BY <1>6

\* A final snapshot has every socket that was read, once and in order, and a
\* second pass changes nothing (FinalizeIsExact).
THEOREM FinalizeExact == Spec => []FinalizeIsExact
<1>1. CallInv => FinalizeIsExact
  <2> SUFFICES ASSUME CallInv, call.function = "finalize"
               PROVE  IsFinal(FinalizeSnapshot(call.entries), call.entries)
    BY Zenon DEF FinalizeIsExact, IsFinal
  <2>1. call.entries \in Seq(ReadEntries)
    BY DEF CallInv
  <2>2. call.entries \in Seq(SocketEntries) /\ Single(call.entries)
    BY <2>1, ReadEntriesType DEF Single
  <2> QED BY <2>2, SnapshotFinal
<1> QED BY <1>1, CallInvariance, PTL

LEMMA CachedEntriesType == CachedEntries \subseteq {e \in SocketEntries : e.fd_count = 1}
<1>1. ASSUME NEW pid \in Int, NEW name \in Int, NEW port \in Int, NEW protocol \in Int,
             NEW state \in SocketStates
      PROVE  /\ Entry(pid, name, port, protocol, state) \in SocketEntries
             /\ Entry(pid, name, port, protocol, state).fd_count = 1
  BY DEF Entry, SocketEntries
<1>2. "unknown" \in SocketStates /\ "established" \in SocketStates
  BY DEF SocketStates
<1> DEFINE Good(e) == e \in SocketEntries /\ e.fd_count = 1
<1>3. /\ Good(Entry(1, 1, 80, 0, "established")) /\ Good(Entry(1, 3, 80, 1, "unknown"))
      /\ Good(Entry(2, 3, 53, 1, "unknown")) /\ Good(Entry(3, 3, 80, 0, "unknown"))
  BY <1>1, <1>2
<1>4. ASSUME NEW e \in CachedEntries PROVE Good(e)
  <2> HIDE DEF Good
  <2> QED BY <1>3 DEF CachedEntries
<1> QED BY <1>4

\* Where libproc showed a socket the snapshot is as libproc had it; where it did
\* not, one entry of lsof stands for it (OneSourcePerSocket).
THEOREM OneSource == Spec => []OneSourcePerSocket
<1>1. CallInv => OneSourcePerSocket
  <2> SUFFICES ASSUME CallInv, call.function = "append"
               PROVE  IsOneSource(ScanResult(call.entries, call.cached), call.entries, call.cached)
    BY Zenon DEF OneSourcePerSocket, IsOneSource
  <2>1. /\ call.entries \in Seq(ReadEntries)
        /\ \E cached \in Seq(CachedEntries) : call.cached = FinalizeSnapshot(cached)
    BY DEF CallInv
  <2>2. call.entries \in Seq(SocketEntries) /\ Single(call.entries)
    BY <2>1, ReadEntriesType DEF Single
  <2>3. PICK cached \in Seq(CachedEntries) : call.cached = FinalizeSnapshot(cached)
    BY <2>1
  <2>4. cached \in Seq(SocketEntries) /\ Single(cached)
    BY CachedEntriesType DEF Single
  <2>5. call.cached \in Seq(SocketEntries)
    BY <2>3, <2>4, FinalizeStandsFor DEF Shown
  <2> QED BY <2>2, <2>5, SourcesKept
<1> QED BY <1>1, CallInvariance, PTL

LEMMA ReadOfType == ReadOf \in [1 .. 3 -> Seq({e \in SocketEntries : e.fd_count = 1})]
<1> DEFINE V == {e \in SocketEntries : e.fd_count = 1}
           a == Entry(1, 1, 80, 0, "established")
           b == Entry(1, 1, 80, 0, "listen")
           c == Entry(3, 1, 53, 1, "unknown")
<1>1. ASSUME NEW pid \in Int, NEW port \in Int, NEW protocol \in Int, NEW state \in SocketStates
      PROVE  Entry(pid, 1, port, protocol, state) \in V
  BY DEF Entry, SocketEntries
<1>2. a \in V /\ b \in V /\ c \in V
  BY <1>1 DEF SocketStates
<1>3. ReadOf = <<<<a, b>>, <<>>, <<c, c>>>>
  BY Zenon DEF ReadOf
<1> HIDE DEF V, a, b, c
<1>4. <<a, b>> \in Seq(V) /\ <<>> \in Seq(V) /\ <<c, c>> \in Seq(V)
  BY <1>2
<1> DEFINE x == <<a, b>>
           y == <<c, c>>
           S == Seq(V)
<1>5. x \in S /\ <<>> \in S /\ y \in S
  BY <1>4
<1> HIDE DEF x, y, S
<1>6. <<x, <<>>, y>> \in [1 .. 3 -> S]
  BY <1>5
<1> QED BY <1>3, <1>6, Zenon DEF x, y, S, V

\* Both scanners return the same snapshot of the same processes, for listings of
\* any length and pools of any size (ScannersAgree).
THEOREM ScannersSame == Spec => []ScannersAgree
<1>1. CallInv => ScannersAgree
  <2> SUFFICES ASSUME CallInv, call.function = "scan", NEW cached
               PROVE  ScanResult(ParallelEntries(call.pids, ReadOf, call.workers), cached)
                        = ScanResult(SerialEntries(call.pids, ReadOf), cached)
    BY Zenon DEF ScannersAgree
  <2>1. /\ call.pids \in Seq(1 .. 3) /\ call.pids # <<>>
        /\ call.workers \in Nat \ {0}
    BY DEF CallInv
  <2> DEFINE P == 1 .. 3
  <2>2. ReadOf \in [P -> Seq({e \in SocketEntries : e.fd_count = 1})]
    BY ReadOfType
  <2>3. call.pids \in Seq(P)
    BY <2>1
  <2> HIDE DEF P
  <2> QED BY <2>1, <2>2, <2>3, ScansAgree
<1> QED BY <1>1, CallInvariance, PTL

\* The descriptors of a process are all listed, whatever happens to their number
\* between two calls (FdListingIsComplete).
THEOREM FdsListed == Spec => []FdListingIsComplete
<1>1. CallInv => FdListingIsComplete
  <2> SUFFICES ASSUME CallInv, call.function = "list"
               PROVE  LET listed == ListedFds(call.first, MaxCapacity, call.there)
                      IN  listed.count = Min({call.there[listed.calls], MaxCapacity})
    BY DEF FdListingIsComplete
  <2> DEFINE first == call.first
             there == call.there
  <2>1. /\ first \in 1 .. MaxCapacity /\ 4 * first >= MaxCapacity
        /\ there \in [1 .. 3 -> 0 .. MaxThere] /\ MaxCapacity \in Nat \ {0}
    BY InputsAssumption DEF CallInv
  <2> HIDE DEF first, there
  <2>2. first \in Nat \ {0} /\ first <= MaxCapacity /\ there \in [1 .. 3 -> Nat]
    BY <2>1
  <2>3. /\ Capacity(first, MaxCapacity, 0) = first
        /\ Capacity(first, MaxCapacity, 1) = Min({first * 2, MaxCapacity})
        /\ Capacity(first, MaxCapacity, 2)
             = Min({Capacity(first, MaxCapacity, 1) * 2, MaxCapacity})
    <3>1. /\ Capacity(first, MaxCapacity, 0 + 1)
               = Min({Capacity(first, MaxCapacity, 0) * 2, MaxCapacity})
          /\ Capacity(first, MaxCapacity, 1 + 1)
               = Min({Capacity(first, MaxCapacity, 1) * 2, MaxCapacity})
          /\ Capacity(first, MaxCapacity, 0) = first
      BY <2>1, <2>2, CapacityGrows
    <3> QED BY <3>1
  <2>4. Min({first * 2, MaxCapacity})
          = IF first * 2 <= MaxCapacity THEN first * 2 ELSE MaxCapacity
    BY <2>1, <2>2, MinOfTwo
  <2>5. Capacity(first, MaxCapacity, 1) \in Nat
    BY <2>1, <2>2, <2>3, <2>4
  <2>6. Min({Capacity(first, MaxCapacity, 1) * 2, MaxCapacity})
          = IF Capacity(first, MaxCapacity, 1) * 2 <= MaxCapacity
            THEN Capacity(first, MaxCapacity, 1) * 2 ELSE MaxCapacity
    BY <2>1, <2>5, MinOfTwo
  <2>7. Capacity(first, MaxCapacity, 3 - 1) = MaxCapacity
    <3>1. Capacity(first, MaxCapacity, 2) = MaxCapacity
      BY <2>1, <2>2, <2>3, <2>4, <2>5, <2>6
    <3> QED BY <3>1
  <2>8. Enough(first, MaxCapacity, 3)
    BY <2>7 DEF Enough
  <2>9. ListedFds(first, MaxCapacity, there).count
          = Min({there[ListedFds(first, MaxCapacity, there).calls], MaxCapacity})
    <3>1. /\ first \in Nat \ {0} /\ MaxCapacity \in Nat \ {0} /\ first <= MaxCapacity /\ 3 \in Nat
          /\ there \in [1 .. 3 -> Nat]
      BY <2>1, <2>2
    <3> QED BY <3>1, <2>8, FdListingComplete, ZenonT(40)
  <2> QED BY <2>9, Zenon DEF first, there
<1> QED BY <1>1, CallInvariance, PTL

----------------------------------------------------------------------------
(* lsof *)

\* Without an arrow, the local address is the whole name; else what is before
\* the first one.
LEMMA LocalAddress ==
  ASSUME NEW V, NEW name \in Seq(V), NEW m \in 0 .. Len(name),
         \A i \in 1 .. m : name[i] # "->",
         m = Len(name) \/ name[m + 1] = "->"
  PROVE  Local(name) = SubSeq(name, 1, m)
<1> DEFINE n == Len(name)
           arrows == Places(name, "->")
           ends == {i - 1 : i \in arrows} \cup {n}
<1>1. n \in Nat /\ DOMAIN name = 1 .. n /\ m \in Nat /\ m <= n
  OBVIOUS
<1>2. \A i \in arrows : i \in 1 .. n /\ name[i] = "->"
  BY <1>1 DEF Places
<1>3. \A i \in 1 .. n : name[i] = "->" => i \in arrows
  BY <1>1 DEF Places
<1>4. m = n \/ name[m + 1] = "->"
  OBVIOUS
<1> HIDE DEF n, arrows
<1>5. \A i \in arrows : i \in Nat /\ m < i
  <2> SUFFICES ASSUME NEW i \in arrows PROVE i \in Nat /\ m < i
    OBVIOUS
  <2>1. i \in Nat /\ i \notin 1 .. m /\ 1 <= i
    BY <1>1, <1>2
  <2> QED BY <1>1, <2>1
<1>6. m \in ends
  <2>1. CASE m = n
    BY <2>1
  <2>2. CASE m # n
    <3>1. m + 1 \in 1 .. n
      BY <1>1, <2>2
    <3>2. m + 1 \in arrows
      BY <1>3, <1>4, <2>2, <3>1
    <3>3. m = (m + 1) - 1
      BY <1>1
    <3> QED BY <3>2, <3>3
  <2> QED BY <2>1, <2>2
<1>7. \A x \in ends : x \in Nat /\ m <= x
  <2> SUFFICES ASSUME NEW x \in ends PROVE x \in Nat /\ m <= x
    OBVIOUS
  <2>1. CASE x = n
    BY <1>1, <2>1
  <2>2. CASE \E i \in arrows : x = i - 1
    BY <1>1, <1>5, <2>2
  <2> QED BY <2>1, <2>2
<1> HIDE DEF ends
<1>8. Min(ends) = m
  BY <1>6, <1>7, MinIs
<1>9. Local(name) = SubSeq(name, 1, Min(ends))
  BY Zenon DEF Local, ends, arrows, n
<1> QED BY <1>8, <1>9

LEMMA OneElement ==
  ASSUME NEW V, NEW s \in Seq(V), Len(s) = 1
  PROVE  ToSet(s) = {s[1]}
<1>1. DOMAIN s = {1}
  OBVIOUS
<1> QED BY <1>1 DEF ToSet

\* The port is the one token after the last colon of the local address.
LEMMA PortAfterColon ==
  ASSUME NEW V, NEW name, NEW local \in Seq(V), Local(name) = local,
         NEW c \in 1 .. Len(local) - 1, local[c] = ":",
         \A i \in c + 1 .. Len(local) : local[i] # ":"
  PROVE  LET port == local[c + 1]
             good == /\ c + 1 = Len(local)
                     /\ port \in DOMAIN Numeral
                     /\ Numeral[port] \in 1 .. MaxPort
         IN  /\ good => ParseLocalPort(name) = Numeral[port]
             /\ ~good => ParseLocalPort(name) = 0
<1> DEFINE n == Len(local)
           colons == Places(local, ":")
           after == PortText(local)
           port == local[c + 1]
<1>1. n \in Nat /\ DOMAIN local = 1 .. n /\ c \in Nat /\ c \in DOMAIN local /\ c + 1 \in 1 .. n
  OBVIOUS
<1>2. c \in colons
  BY <1>1 DEF Places
<1>3. \A y \in colons \cup {0} : y \in Nat /\ y <= c
  <2> SUFFICES ASSUME NEW y \in colons PROVE y \in Nat /\ y <= c
    BY <1>1
  <2>1. y \in 1 .. n /\ local[y] = ":"
    BY <1>1 DEF Places
  <2>2. y \notin c + 1 .. n
    BY <2>1
  <2> HIDE DEF n
  <2> QED BY <1>1, <2>1, <2>2
<1>4. Max(colons \cup {0}) = c
  <2> HIDE DEF colons
  <2> QED BY <1>2, <1>3, MaxIs
<1>5. after = SubSeq(local, c + 1, n)
  <2> HIDE DEF colons
  <2> QED BY <1>4 DEF PortText, colons
<1>6. after \in Seq(V) /\ Len(after) = n - c /\ after[1] = port
  <2>1. /\ c + 1 \in Int /\ n \in Int /\ local \in Seq(V) /\ c + 1 >= 1 /\ c + 1 <= n
        /\ n - (c + 1) + 1 = n - c /\ (1 + (c + 1)) - 1 = c + 1
    <3> HIDE DEF n
    <3> QED BY <1>1
  <2> DEFINE sub == SubSeq(local, c + 1, n)
  <2>2. Len(sub) = n - c
    BY <1>1, <2>1
  <2>3. sub \in Seq(V)
    BY <1>1, <2>1
  <2>4. sub[1] = local[c + 1]
    BY <1>1, <2>1
  <2> QED BY <1>5, <2>2, <2>3, <2>4
<1>7. /\ IsPort(after) => ParseLocalPort(name) = Numeral[after[1]]
      /\ ~IsPort(after) => ParseLocalPort(name) = 0
  BY <1>2 DEF ParseLocalPort
<1> HIDE DEF after, colons, n, port
<1>8. Len(after) = 1 <=> c + 1 = n
  BY <1>1, <1>6
<1> DEFINE valid == port \in DOMAIN Numeral /\ Numeral[port] \in 1 .. MaxPort
<1>9. Numeral[after[1]] = Numeral[port]
  BY <1>6
<1>10. ASSUME Len(after) = 1 PROVE IsPort(after) <=> valid
  <2>1. ToSet(after) = {port}
    BY <1>6, <1>10, OneElement
  <2>2. ToSet(after) \subseteq DOMAIN Numeral <=> port \in DOMAIN Numeral
    BY <2>1
  <2>3. Numeral[after[1]] \in 1 .. MaxPort <=> Numeral[port] \in 1 .. MaxPort
    BY <1>9
  <2> QED BY <1>10, <2>2, <2>3, Zenon DEF IsPort
<1>11. ASSUME Len(after) # 1 PROVE ~IsPort(after)
  BY <1>11, Zenon DEF IsPort
<1> QED BY <1>7, <1>8, <1>9, <1>10, <1>11, Zenon DEF n, port

\* What lsof prints of an address: tokens, but no arrow and no state.
Text(V) == V \ {"->", "(LISTEN)", "(ESTABLISHED)"}

\* The sockets of Sockets and more: hosts of any number of tokens of any set V,
\* and any state, whether or not there is a peer.
IsSocket(V, s) ==
  /\ {":", "->", "space"} \subseteq V
  /\ s.command \in Int /\ s.pid \in Int
  /\ s.protocol \in {"TCP", "UDP", "unknown"}
  /\ s.host \in Seq(Text(V)) /\ s.port \in Text(V) \ {":"}
  /\ s.peer \in Seq(Text(V)) /\ s.peer_port \in Text(V)
  /\ s.state \in V \ {":", "->"}
  /\ s.complete \in BOOLEAN

\* Concatenations, element by element.
LEMMA TwoParts ==
  ASSUME NEW V, NEW a \in Seq(V), NEW b \in Seq(V)
  PROVE  /\ a \o b \in Seq(V)
         /\ Len(a \o b) = Len(a) + Len(b) /\ Len(a) \in Nat /\ Len(b) \in Nat
         /\ \A i \in 1 .. Len(a) : (a \o b)[i] = a[i]
         /\ \A i \in 1 .. Len(b) : (a \o b)[Len(a) + i] = b[i]
OBVIOUS

LEMMA WiderSeq ==
  ASSUME NEW T, NEW V, T \subseteq V, NEW s \in Seq(T)
  PROVE  s \in Seq(V)
<1>1. Len(s) \in Nat /\ s \in [1 .. Len(s) -> T]
  OBVIOUS
<1> DEFINE n == Len(s)
<1> HIDE DEF n
<1>2. s \in [1 .. n -> V]
  BY <1>1 DEF n
<1> QED BY <1>1, <1>2 DEF n

LEMMA ThreeParts ==
  ASSUME NEW V, NEW a \in Seq(V), NEW b \in Seq(V), NEW c \in Seq(V)
  PROVE  LET s == a \o b \o c
         IN  /\ s \in Seq(V) /\ Len(s) = Len(a) + Len(b) + Len(c)
             /\ \A i \in 1 .. Len(a) : s[i] = a[i]
             /\ \A i \in 1 .. Len(b) : s[Len(a) + i] = b[i]
             /\ \A i \in 1 .. Len(c) : s[Len(a) + Len(b) + i] = c[i]
<1> DEFINE t == a \o b
           s == t \o c
           m == Len(a)
           n == Len(b)
<1>1. /\ t \in Seq(V) /\ Len(t) = m + n /\ m \in Nat /\ n \in Nat
      /\ \A i \in 1 .. m : t[i] = a[i]
      /\ \A i \in 1 .. n : t[m + i] = b[i]
  BY TwoParts
<1>2. /\ s \in Seq(V) /\ Len(s) = Len(t) + Len(c)
      /\ \A i \in 1 .. Len(t) : s[i] = t[i]
      /\ \A i \in 1 .. Len(c) : s[Len(t) + i] = c[i]
  <2>1. t \in Seq(V)
    BY <1>1
  <2> HIDE DEF t
  <2> QED BY <2>1, TwoParts
<1> HIDE DEF s, t, m, n
<1>3. \A i \in 1 .. m : s[i] = a[i]
  BY <1>1, <1>2
<1>4. \A i \in 1 .. n : s[m + i] = b[i]
  BY <1>1, <1>2
<1> QED BY <1>1, <1>2, <1>3, <1>4 DEF s, t, m, n

\* An address of lsof, token by token.
LEMMA AddressParts ==
  ASSUME NEW V, ":" \in V, NEW host \in Seq(V), NEW port \in V
  PROVE  /\ Address(host, port) \in Seq(V) /\ Len(Address(host, port)) = Len(host) + 2
         /\ \A i \in 1 .. Len(host) : Address(host, port)[i] = host[i]
         /\ Address(host, port)[Len(host) + 1] = ":"
         /\ Address(host, port)[Len(host) + 2] = port
<1> DEFINE end == <<":", port>>
           a == host \o end
<1>1. end \in Seq(V) /\ Len(end) = 2 /\ end[1] = ":" /\ end[2] = port
  OBVIOUS
<1> HIDE DEF end
<1>2. /\ a \in Seq(V) /\ Len(a) = Len(host) + 2
      /\ \A i \in 1 .. Len(host) : a[i] = host[i]
      /\ \A i \in 1 .. 2 : a[Len(host) + i] = end[i]
  <2>1. /\ a \in Seq(V) /\ Len(a) = Len(host) + Len(end)
        /\ \A i \in 1 .. Len(host) : a[i] = host[i]
        /\ \A i \in 1 .. Len(end) : a[Len(host) + i] = end[i]
    <3>1. end \in Seq(V)
      BY <1>1
    <3> QED BY <3>1, TwoParts
  <2> HIDE DEF a
  <2> QED BY <1>1, <2>1
<1>3. Address(host, port) = a
  BY DEF Address, end
<1> HIDE DEF a
<1> QED BY <1>1, <1>2, <1>3

\* The rest of a connection, behind the local address.
LEMMA PeerParts ==
  ASSUME NEW V, NEW T, T \subseteq V, ":" \in T, "->" \in V, NEW peer \in Seq(T), NEW port \in T
  PROVE  LET rest == <<"->">> \o Address(peer, port)
         IN  /\ rest \in Seq(V) /\ Len(rest) = Len(peer) + 3 /\ Len(peer) \in Nat
             /\ rest[1] = "->"
             /\ \A i \in 2 .. Len(peer) + 3 : rest[i] \in T
<1> DEFINE arrow == <<"->">>
           address == Address(peer, port)
           rest == arrow \o address
           n == Len(peer)
<1>1. address \in Seq(T) /\ Len(address) = n + 2 /\ n \in Nat
  BY AddressParts
<1>2. arrow \in Seq(V) /\ Len(arrow) = 1 /\ arrow[1] = "->"
  OBVIOUS
<1> HIDE DEF arrow, address, n
<1>3. address \in Seq(V) /\ \A i \in 1 .. n + 2 : address[i] \in T
  BY <1>1
<1>4. /\ rest \in Seq(V) /\ Len(rest) = 1 + (n + 2) /\ rest[1] = "->"
      /\ \A i \in 1 .. n + 2 : rest[1 + i] = address[i]
  <2>1. 1 \in 1 .. 1
    OBVIOUS
  <2>2. address \in Seq(V)
    BY <1>3, Zenon
  <2>3. /\ rest \in Seq(V) /\ Len(rest) = Len(arrow) + Len(address)
        /\ \A i \in 1 .. Len(arrow) : rest[i] = arrow[i]
        /\ \A i \in 1 .. Len(address) : rest[Len(arrow) + i] = address[i]
    <3>1. arrow \in Seq(V)
      BY <1>2
    <3> QED BY <2>2, <3>1, TwoParts
  <2> HIDE DEF rest
  <2>4. Len(arrow) = 1 /\ Len(address) = n + 2
    BY <1>1, <1>2
  <2> QED BY <1>2, <2>1, <2>3, <2>4
<1> HIDE DEF rest
<1>5. ASSUME NEW i \in 2 .. n + 3 PROVE rest[i] \in T
  <2>1. i - 1 \in 1 .. n + 2 /\ 1 + (i - 1) = i
    BY <1>1
  <2> QED BY <1>3, <1>4, <2>1
<1> QED BY <1>1, <1>4, <1>5 DEF rest, arrow, address, n

\* The parts of the name lsof prints.
LEMMA NameParts ==
  ASSUME NEW V, NEW s, IsSocket(V, s)
  PROVE  LET h == Len(s.host)
             p == IF s.peer = <<>> THEN 0 ELSE Len(s.peer) + 3
             q == IF s.state = "none" THEN 0 ELSE 2
             name == Printed(s)
         IN  /\ h \in Nat /\ p \in Nat /\ q \in Nat
             /\ name \in Seq(V) /\ Len(name) = h + 2 + p + q
             /\ \A i \in 1 .. h : name[i] \in Text(V)
             /\ name[h + 1] = ":" /\ name[h + 2] = s.port
             /\ p > 0 => /\ name[h + 2 + 1] = "->"
                         /\ \A i \in 2 .. p : name[h + 2 + i] \in Text(V)
             /\ q > 0 => name[h + 2 + p + 1] = "space" /\ name[h + 2 + p + 2] = s.state
<1> DEFINE h == Len(s.host)
           p == IF s.peer = <<>> THEN 0 ELSE Len(s.peer) + 3
           q == IF s.state = "none" THEN 0 ELSE 2
           a == Address(s.host, s.port)
           b == IF s.peer = <<>> THEN <<>> ELSE <<"->">> \o Address(s.peer, s.peer_port)
           c == IF s.state = "none" THEN <<>> ELSE <<"space", s.state>>
           name == Printed(s)
           T == Text(V)
<1>1. /\ s.host \in Seq(T) /\ s.port \in T /\ s.peer \in Seq(T) /\ s.peer_port \in T
      /\ s.state \in V
  BY DEF IsSocket
<1>2. T \subseteq V /\ ":" \in T /\ "space" \in V /\ "->" \in V
  BY DEF IsSocket, Text
<1>3. name = a \o b \o c
  BY Zenon DEF Printed
<1> HIDE DEF T
<1>4. /\ a \in Seq(T) /\ Len(a) = h + 2 /\ h \in Nat /\ \A i \in 1 .. h : a[i] \in T
      /\ a[h + 1] = ":" /\ a[h + 2] = s.port
  <2>1. h \in Nat /\ \A i \in 1 .. h : s.host[i] \in T
    BY <1>1
  <2>2. /\ a \in Seq(T) /\ Len(a) = Len(s.host) + 2
        /\ \A i \in 1 .. Len(s.host) : a[i] = s.host[i]
        /\ a[Len(s.host) + 1] = ":" /\ a[Len(s.host) + 2] = s.port
    <3>1. ":" \in T
      BY <1>2
    <3>2. s.host \in Seq(T)
      BY <1>1
    <3>3. s.port \in T
      BY <1>1
    <3> DEFINE host == s.host
               port == s.port
    <3> HIDE DEF host, port
    <3>4. host \in Seq(T) /\ port \in T
      BY <3>2, <3>3 DEF host, port
    <3>5. /\ Address(host, port) \in Seq(T) /\ Len(Address(host, port)) = Len(host) + 2
          /\ \A i \in 1 .. Len(host) : Address(host, port)[i] = host[i]
          /\ Address(host, port)[Len(host) + 1] = ":"
          /\ Address(host, port)[Len(host) + 2] = port
      BY <3>1, <3>4, AddressParts
    <3> QED BY <3>5 DEF host, port
  <2> HIDE DEF a
  <2> QED BY <2>1, <2>2
<1>5. a \in Seq(V)
  <2> HIDE DEF a
  <2> QED BY <1>2, <1>4, WiderSeq
<1>6. /\ b \in Seq(V) /\ Len(b) = p /\ p \in Nat
      /\ p > 0 => b[1] = "->" /\ \A i \in 2 .. p : b[i] \in T
  <2>1. CASE s.peer = <<>>
    BY <2>1
  <2>2. CASE s.peer # <<>>
    <3> DEFINE rest == <<"->">> \o Address(s.peer, s.peer_port)
               n == Len(s.peer)
    <3>1. /\ rest \in Seq(V) /\ Len(rest) = n + 3 /\ n \in Nat
          /\ rest[1] = "->" /\ \A i \in 2 .. n + 3 : rest[i] \in T
      BY <1>1, <1>2, PeerParts
    <3>2. b = rest /\ p = n + 3
      BY <2>2
    <3> HIDE DEF rest, b, p, n
    <3> QED BY <3>1, <3>2
  <2> QED BY <2>1, <2>2
<1>7. /\ c \in Seq(V) /\ Len(c) = q /\ q \in {0, 2} /\ q \in Nat
      /\ q > 0 => c[1] = "space" /\ c[2] = s.state
  <2>1. CASE s.state = "none"
    BY <2>1
  <2>2. CASE s.state # "none"
    <3> DEFINE state == s.state
               e == <<"space", state>>
    <3>1. state \in V /\ "space" \in V
      BY <1>1, <1>2
    <3> HIDE DEF state
    <3>2. e \in Seq(V) /\ Len(e) = 2 /\ e[1] = "space" /\ e[2] = state
      BY <3>1
    <3>3. c = e /\ q = 2 /\ state = s.state
      BY <2>2 DEF state
    <3> HIDE DEF c, q, e
    <3> QED BY <3>2, <3>3
  <2> QED BY <2>1, <2>2
<1> HIDE DEF a, b, c, p, q, h, name
<1>8. /\ name \in Seq(V) /\ Len(name) = h + 2 + p + q
      /\ \A i \in 1 .. h + 2 : name[i] = a[i]
      /\ \A i \in 1 .. p : name[h + 2 + i] = b[i]
      /\ \A i \in 1 .. q : name[h + 2 + p + i] = c[i]
  <2>1. Len(a) = h + 2 /\ Len(b) = p /\ Len(c) = q
    BY <1>4, <1>6, <1>7
  <2>2. /\ name \in Seq(V) /\ Len(name) = Len(a) + Len(b) + Len(c)
        /\ \A i \in 1 .. Len(a) : name[i] = a[i]
        /\ \A i \in 1 .. Len(b) : name[Len(a) + i] = b[i]
        /\ \A i \in 1 .. Len(c) : name[Len(a) + Len(b) + i] = c[i]
    <3>1. a \in Seq(V)
      BY <1>5
    <3>2. b \in Seq(V)
      BY <1>6
    <3>3. c \in Seq(V)
      BY <1>7
    <3> QED BY <1>3, <3>1, <3>2, <3>3, ThreeParts
  <2> QED BY <2>1, <2>2
<1>9. /\ \A i \in 1 .. h : name[i] \in T
      /\ name[h + 1] = ":" /\ name[h + 2] = s.port
  BY <1>4, <1>8
<1>10. ASSUME p > 0
       PROVE  /\ name[h + 2 + 1] = "->"
              /\ \A i \in 2 .. p : name[h + 2 + i] \in T
  BY <1>6, <1>8, <1>10
<1>11. ASSUME q > 0
       PROVE  name[h + 2 + p + 1] = "space" /\ name[h + 2 + p + 2] = s.state
  <2>1. q = 2
    BY <1>7, <1>11
  <2> QED BY <1>7, <1>8, <1>11, <2>1
<1> QED BY <1>4, <1>6, <1>8, <1>9, <1>10, <1>11, <1>7, Zenon DEF h, p, q, name, T

\* The local address ends at the arrow, or with the name.
LEMMA LocalOfPrinted ==
  ASSUME NEW V, NEW s, IsSocket(V, s)
  PROVE  LET h == Len(s.host)
             m == IF StateBehindPort(s) THEN h + 4 ELSE h + 2
         IN  /\ m \in 0 .. Len(Printed(s)) /\ Printed(s) \in Seq(V)
             /\ Local(Printed(s)) = SubSeq(Printed(s), 1, m)
<1> DEFINE h == Len(s.host)
           p == IF s.peer = <<>> THEN 0 ELSE Len(s.peer) + 3
           q == IF s.state = "none" THEN 0 ELSE 2
           m == IF StateBehindPort(s) THEN h + 4 ELSE h + 2
           name == Printed(s)
<1>1. /\ h \in Nat /\ p \in Nat /\ q \in Nat
      /\ name \in Seq(V) /\ Len(name) = h + 2 + p + q
      /\ \A i \in 1 .. h : name[i] \in Text(V)
      /\ name[h + 1] = ":" /\ name[h + 2] = s.port
      /\ p > 0 => /\ name[h + 2 + 1] = "->"
                  /\ \A i \in 2 .. p : name[h + 2 + i] \in Text(V)
      /\ q > 0 => name[h + 2 + p + 1] = "space" /\ name[h + 2 + p + 2] = s.state
  BY NameParts
<1>2. Len(s.peer) \in Nat
  BY DEF IsSocket
<1>3. s.port # "->" /\ s.state # "->" /\ \A x \in Text(V) : x # "->"
  BY DEF IsSocket, Text
<1>4. /\ s.peer # <<>> => p > 0 /\ m = h + 2
      /\ s.peer = <<>> /\ s.state = "none" => p = 0 /\ q = 0 /\ m = h + 2
      /\ s.peer = <<>> /\ s.state # "none" => p = 0 /\ q = 2 /\ m = h + 4
  BY <1>2 DEF StateBehindPort
<1> HIDE DEF h, p, q, m, name
<1>5. /\ m \in 0 .. Len(name) /\ \A i \in 1 .. m : name[i] # "->"
      /\ m = Len(name) \/ name[m + 1] = "->"
  <2>1. CASE s.peer # <<>>
    <3>1. m = h + 2 /\ p > 0
      BY <1>4, <2>1
    <3>2. ASSUME NEW i \in 1 .. m PROVE name[i] # "->"
      <4>1. i \in 1 .. h \/ i = h + 1 \/ i = h + 2
        BY <1>1, <3>1
      <4> QED BY <1>1, <1>3, <4>1
    <3> QED BY <1>1, <3>1, <3>2
  <2>2. CASE s.peer = <<>> /\ s.state = "none"
    <3>1. m = h + 2 /\ p = 0 /\ q = 0
      BY <1>4, <2>2
    <3>2. ASSUME NEW i \in 1 .. m PROVE name[i] # "->"
      <4>1. i \in 1 .. h \/ i = h + 1 \/ i = h + 2
        BY <1>1, <3>1
      <4> QED BY <1>1, <1>3, <4>1
    <3> QED BY <1>1, <3>1, <3>2
  <2>3. CASE s.peer = <<>> /\ s.state # "none"
    <3>1. m = h + 4 /\ p = 0 /\ q = 2
      BY <1>4, <2>3
    <3>2. name[h + 3] = "space" /\ name[h + 4] = s.state
      <4>1. name[h + 2 + 0 + 1] = "space" /\ name[h + 2 + 0 + 2] = s.state
        BY <1>1, <2>3, <3>1
      <4>2. h + 2 + 0 + 1 = h + 3 /\ h + 2 + 0 + 2 = h + 4
        BY <1>1
      <4> QED BY <4>1, <4>2
    <3>3. ASSUME NEW i \in 1 .. m PROVE name[i] # "->"
      <4>1. i \in 1 .. h \/ i = h + 1 \/ i = h + 2 \/ i = h + 3 \/ i = h + 4
        BY <1>1, <3>1
      <4> QED BY <1>1, <1>3, <3>2, <4>1
    <3> QED BY <1>1, <3>1, <3>3
  <2> QED BY <2>1, <2>2, <2>3
<1>6. Local(name) = SubSeq(name, 1, m)
  BY <1>1, <1>5, LocalAddress
<1> QED BY <1>1, <1>5, <1>6 DEF h, m, name

\* A port is read unless a state comes after it.
LEMMA PortRead ==
  ASSUME NEW V, NEW s, IsSocket(V, s)
  PROVE  LET port == ParseLocalPort(Printed(s))
             valid == s.port \in DOMAIN Numeral /\ Numeral[s.port] \in 1 .. MaxPort
         IN  /\ ~StateBehindPort(s) /\ valid => port = Numeral[s.port]
             /\ StateBehindPort(s) \/ ~valid => port = 0
<1> DEFINE h == Len(s.host)
           m == IF StateBehindPort(s) THEN h + 4 ELSE h + 2
           c == h + 1
           name == Printed(s)
           local == Local(name)
<1>1. /\ h \in Nat /\ name[h + 1] = ":" /\ name[h + 2] = s.port
      /\ StateBehindPort(s) => name[h + 3] = "space" /\ name[h + 4] = s.state
  <2> DEFINE p == IF s.peer = <<>> THEN 0 ELSE Len(s.peer) + 3
             q == IF s.state = "none" THEN 0 ELSE 2
  <2>1. /\ h \in Nat /\ name[h + 1] = ":" /\ name[h + 2] = s.port
        /\ q > 0 => name[h + 2 + p + 1] = "space" /\ name[h + 2 + p + 2] = s.state
    BY NameParts
  <2>2. StateBehindPort(s) => p = 0 /\ q = 2
    BY DEF StateBehindPort
  <2> HIDE DEF h, p, q, name
  <2>3. h + 2 + 0 + 1 = h + 3 /\ h + 2 + 0 + 2 = h + 4
    BY <2>1
  <2> QED BY <2>1, <2>2, <2>3
<1>2. m \in 0 .. Len(name) /\ name \in Seq(V) /\ local = SubSeq(name, 1, m)
  BY LocalOfPrinted
<1>3. s.port # ":" /\ s.state # ":"
  BY DEF IsSocket
<1>4. m \in Nat /\ h + 2 <= m /\ (StateBehindPort(s) => m = h + 4)
      /\ (~StateBehindPort(s) => m = h + 2)
  BY <1>1
<1> HIDE DEF h, m, name, local
<1>5. local \in Seq(V) /\ Len(local) = m /\ \A i \in 1 .. m : local[i] = name[i]
  BY <1>2, <1>4
<1>6. c \in 1 .. Len(local) - 1 /\ c + 1 = h + 2
  BY <1>1, <1>4, <1>5
<1>7. local[c] = ":" /\ local[c + 1] = s.port
  BY <1>1, <1>4, <1>5, <1>6
<1>8. \A i \in c + 1 .. Len(local) : local[i] # ":"
  <2> SUFFICES ASSUME NEW i \in c + 1 .. Len(local) PROVE local[i] # ":"
    OBVIOUS
  <2>1. i \in 1 .. m /\ i >= h + 2 /\ i <= m
    BY <1>1, <1>5
  <2>2. local[i] = name[i]
    BY <1>5, <2>1
  <2>3. CASE StateBehindPort(s)
    <3>1. i = h + 2 \/ i = h + 3 \/ i = h + 4
      BY <1>1, <1>4, <2>1, <2>3
    <3> QED BY <1>1, <1>3, <2>2, <2>3, <3>1
  <2>4. CASE ~StateBehindPort(s)
    <3>1. i = h + 2
      BY <1>1, <1>4, <2>1, <2>4
    <3> QED BY <1>1, <1>3, <2>2, <3>1
  <2> QED BY <2>3, <2>4
<1>9. c + 1 = Len(local) <=> ~StateBehindPort(s)
  BY <1>1, <1>4, <1>5, <1>6
<1> DEFINE port == local[c + 1]
           good == /\ c + 1 = Len(local)
                   /\ port \in DOMAIN Numeral
                   /\ Numeral[port] \in 1 .. MaxPort
<1>10. /\ good => ParseLocalPort(name) = Numeral[port]
       /\ ~good => ParseLocalPort(name) = 0
  <2> HIDE DEF c
  <2>1. Local(name) = local
    BY DEF local
  <2> QED BY <1>5, <1>6, <1>7, <1>8, <2>1, PortAfterColon
<1> HIDE DEF c
<1> QED BY <1>7, <1>9, <1>10 DEF name

\* The state is read as printed.
LEMMA StateRead ==
  ASSUME NEW V, NEW s, IsSocket(V, s)
  PROVE  ParseState(Printed(s)) = StateOf(s)
<1> DEFINE h == Len(s.host)
           p == IF s.peer = <<>> THEN 0 ELSE Len(s.peer) + 3
           q == IF s.state = "none" THEN 0 ELSE 2
           name == Printed(s)
<1>1. /\ h \in Nat /\ p \in Nat /\ q \in Nat
      /\ name \in Seq(V) /\ Len(name) = h + 2 + p + q
      /\ \A i \in 1 .. h : name[i] \in Text(V)
      /\ name[h + 1] = ":" /\ name[h + 2] = s.port
      /\ p > 0 => /\ name[h + 2 + 1] = "->"
                  /\ \A i \in 2 .. p : name[h + 2 + i] \in Text(V)
      /\ q > 0 => name[h + 2 + p + 1] = "space" /\ name[h + 2 + p + 2] = s.state
  BY NameParts
<1>2. s.port \in Text(V)
  BY DEF IsSocket
<1>3. q = 0 \/ q = 2
  OBVIOUS
<1>4. s.state # "none" => q = 2
  OBVIOUS
<1>5. ParseState(name) = IF Places(name, "(LISTEN)") # {} THEN "listen"
                         ELSE IF Places(name, "(ESTABLISHED)") # {} THEN "established"
                         ELSE "unknown"
  BY DEF ParseState, States
<1> HIDE DEF h, p, q, name
<1>6. ASSUME NEW x \in {"(LISTEN)", "(ESTABLISHED)"}
      PROVE  Places(name, x) # {} <=> s.state = x
  <2>1. x \notin Text(V) /\ x # ":" /\ x # "->" /\ x # "space" /\ x # "none"
    BY DEF Text
  <2>2. ASSUME NEW i \in DOMAIN name, name[i] = x PROVE s.state = x
    <3>1. i \in 1 .. h + 2 + p + q
      BY <1>1
    <3>2. ~(i \in 1 .. h) /\ i # h + 1 /\ i # h + 2
      BY <1>1, <1>2, <2>1, <2>2
    <3>3. i > h + 2
      BY <1>1, <3>1, <3>2
    <3>4. i > h + 2 + p
      <4> SUFFICES ASSUME i <= h + 2 + p PROVE FALSE
        BY <1>1, <3>1
      <4> DEFINE k == i - (h + 2)
      <4>1. k \in 1 .. p /\ i = h + 2 + k /\ p > 0
        BY <1>1, <3>1, <3>3
      <4>2. k = 1 \/ k \in 2 .. p
        BY <1>1, <4>1
      <4> HIDE DEF k
      <4>3. CASE k = 1
        BY <1>1, <2>1, <2>2, <4>1, <4>3
      <4>4. CASE k \in 2 .. p
        BY <1>1, <2>1, <2>2, <4>1, <4>4
      <4> QED BY <4>2, <4>3, <4>4
    <3>5. q = 2 /\ (i = h + 2 + p + 1 \/ i = h + 2 + p + 2)
      BY <1>1, <1>3, <3>1, <3>4
    <3>6. name[h + 2 + p + 1] = "space" /\ name[h + 2 + p + 2] = s.state
      BY <1>1, <3>5
    <3> QED BY <2>1, <2>2, <3>5, <3>6
  <2>3. ASSUME s.state = x PROVE Places(name, x) # {}
    <3>1. q = 2
      BY <1>4, <2>1, <2>3
    <3>2. name[h + 2 + p + 2] = x /\ h + 2 + p + 2 \in 1 .. Len(name)
      BY <1>1, <2>3, <3>1
    <3>3. h + 2 + p + 2 \in DOMAIN name
      BY <1>1, <3>2
    <3> QED BY <3>2, <3>3 DEF Places
  <2> QED BY <2>2, <2>3 DEF Places
<1>7. /\ Places(name, "(LISTEN)") # {} <=> s.state = "(LISTEN)"
      /\ Places(name, "(ESTABLISHED)") # {} <=> s.state = "(ESTABLISHED)"
  BY <1>6
<1> QED BY <1>5, <1>7 DEF StateOf, name

LEMMA PortsEnd == MaxPort \in Int
BY DEF MaxPort

\* The entry that a line of lsof gives: what was printed of the socket, if that
\* has a port and a process and no state right behind the port; else none.
THEOREM LineIsRead ==
  ASSUME NEW V, NEW s, IsSocket(V, s)
  PROVE  /\ Reportable(s) /\ ~StateBehindPort(s) => EntryOf(LineOf(s)) = <<Expected(s)>>
         /\ ~Reportable(s) \/ StateBehindPort(s) => EntryOf(LineOf(s)) = <<>>
<1> DEFINE line == LineOf(s)
           valid == s.port \in DOMAIN Numeral /\ Numeral[s.port] \in 1 .. MaxPort
           port == ParseLocalPort(Printed(s))
<1>1. /\ line.name = Printed(s) /\ line.protocol = s.protocol /\ line.pid = s.pid
      /\ line.command = s.command /\ line.complete = s.complete
  BY DEF LineOf
<1>2. /\ ~StateBehindPort(s) /\ valid => port = Numeral[s.port]
      /\ StateBehindPort(s) \/ ~valid => port = 0
  BY PortRead
<1>3. ParseState(Printed(s)) = StateOf(s)
  BY StateRead
<1>4. Reportable(s) <=> s.complete /\ s.protocol # "unknown" /\ s.pid > 0 /\ valid
  BY Zenon DEF Reportable
<1>5. valid => Numeral[s.port] # 0
  <2> SUFFICES ASSUME valid PROVE Numeral[s.port] # 0
    OBVIOUS
  <2> DEFINE n == Numeral[s.port]
  <2>1. n \in 1 .. MaxPort
    OBVIOUS
  <2> HIDE DEF n
  <2>2. MaxPort \in Int
    BY PortsEnd
  <2>3. n # 0
    BY <2>1, <2>2
  <2> QED BY <2>3 DEF n
<1> HIDE DEF valid, line
<1>6. EntryOf(line)
        = IF ~s.complete \/ s.protocol = "unknown" \/ port = 0 \/ s.pid <= 0 THEN <<>>
          ELSE <<[pid |-> s.pid, name |-> s.command, port |-> port,
                  protocol |-> IF s.protocol = "TCP" THEN 0 ELSE 1,
                  state |-> StateOf(s), fd_count |-> 1]>>
  BY <1>1, <1>3 DEF EntryOf, Skipped
<1> HIDE DEF port
<1>7. s.pid \in Int
  BY DEF IsSocket
<1>8. ASSUME Reportable(s), ~StateBehindPort(s) PROVE EntryOf(line) = <<Expected(s)>>
  <2>1. port = Numeral[s.port] /\ port # 0
    BY <1>2, <1>4, <1>5, <1>8
  <2>2. s.complete /\ s.protocol # "unknown" /\ ~(s.pid <= 0)
    BY <1>4, <1>7, <1>8
  <2> QED BY <1>6, <2>1, <2>2 DEF Expected
<1>9. ASSUME ~Reportable(s) \/ StateBehindPort(s) PROVE EntryOf(line) = <<>>
  <2>1. ~s.complete \/ s.protocol = "unknown" \/ port = 0 \/ s.pid <= 0
    BY <1>2, <1>4, <1>7, <1>9
  <2> QED BY <1>6, <2>1
<1> QED BY <1>8, <1>9 DEF line

\* A snapshot of one entry, or of none, is that.
LEMMA FinalizeOne ==
  /\ FinalizeSnapshot(<<>>) = <<>>
  /\ \A e \in SocketEntries : FinalizeSnapshot(<<e>>) = <<e>>
<1>1. Shown(<<>>)
  BY DEF Shown, StrictlySorted, DistinctSockets
<1>2. ASSUME NEW e \in SocketEntries PROVE Shown(<<e>>)
  <2> DEFINE r == <<e>>
  <2>1. r \in Seq(SocketEntries) /\ DOMAIN r = {1}
    OBVIOUS
  <2> HIDE DEF r
  <2>2. StrictlySorted(r, ShownKeys, LexOrder(4)) /\ DistinctSockets(r)
    BY <2>1 DEF StrictlySorted, DistinctSockets
  <2>3. Shown(r)
    BY <2>1, <2>2 DEF Shown
  <2> QED BY <2>3 DEF r
<1> QED BY <1>1, <1>2, FinalizeAgain

\* What is collected of one line is what the line gives.
LEMMA CollectOne ==
  ASSUME NEW line, EntryOf(line) = <<>> \/ \E e \in SocketEntries : EntryOf(line) = <<e>>
  PROVE  CollectLsofFallback(<<line>>) = EntryOf(line)
<1> DEFINE x == EntryOf(line)
           V == SocketEntries
           seqs == <<x>>
<1>1. x \in Seq(V)
  <2>1. CASE x = <<>>
    BY <2>1
  <2>2. CASE x # <<>>
    <3>1. PICK e \in V : x = <<e>>
      BY <2>2
    <3> HIDE DEF V
    <3>2. <<e>> \in Seq(V)
      OBVIOUS
    <3> QED BY <3>1, <3>2
  <2> QED BY <2>1, <2>2
<1>2. [i \in DOMAIN <<line>> |-> EntryOf(<<line>>[i])] = seqs
  OBVIOUS
<1>3. FinalizeSnapshot(x) = x
  BY FinalizeOne
<1> HIDE DEF x, V
<1>4. seqs \in Seq(Seq(V)) /\ Len(seqs) = 1 /\ seqs[1] = x
  <2> DEFINE S == Seq(V)
  <2>1. x \in S
    BY <1>1
  <2> HIDE DEF S
  <2>2. seqs \in Seq(S) /\ Len(seqs) = 1 /\ seqs[1] = x
    BY <2>1
  <2> QED BY <2>2 DEF S
<1>5. FlattenSeq(seqs) = x
  <2>1. PICK f \in [0 .. Len(seqs) -> Seq(V)] :
          /\ f[0] = <<>>
          /\ \A k \in 1 .. Len(seqs) : f[k] = f[k - 1] \o seqs[k]
          /\ FlattenSeq(seqs) = f[Len(seqs)]
    BY <1>4, FlattenStates
  <2>2. f[1] = f[0] \o seqs[1]
    <3>1. 1 \in 1 .. Len(seqs) /\ 1 - 1 = 0
      BY <1>4
    <3>2. f[1] = f[1 - 1] \o seqs[1]
      BY <2>1, <3>1
    <3> QED BY <3>1, <3>2
  <2>3. FlattenSeq(seqs) = <<>> \o x
    BY <1>4, <2>1, <2>2
  <2> HIDE DEF seqs
  <2> QED BY <1>1, <2>3
<1> QED BY <1>2, <1>3, <1>5, Zenon DEF CollectLsofFallback, x

\* The tokens of the sockets that lsof reports.
LEMMA SocketsType ==
  ASSUME NEW s \in Sockets
  PROVE  \E V : IsSocket(V, s)
<1> DEFINE V == DOMAIN Numeral \cup {":", "->", "space", "*", "[", "1", "]", "443", "none",
                                     "(LISTEN)", "(CLOSED)", "(ESTABLISHED)", "(CLOSE_WAIT)"}
<1>1. /\ s.command = 1 /\ s.pid \in {0, 1} /\ s.protocol \in {"TCP", "UDP", "unknown"}
      /\ s.host \in Hosts /\ s.port \in DOMAIN Numeral \cup {"*"}
      /\ s.peer \in Hosts \cup {<<>>} /\ s.peer_port = "443"
      /\ s.state \in {"none", "(LISTEN)", "(CLOSED)", "(ESTABLISHED)", "(CLOSE_WAIT)"}
      /\ s.complete \in BOOLEAN
  BY DEF Sockets
<1>2. /\ "*" \in Text(V) /\ "[" \in Text(V) /\ ":" \in Text(V) /\ "1" \in Text(V)
      /\ "]" \in Text(V) /\ "443" \in Text(V)
  BY DEF Text
<1>3. \A d \in DOMAIN Numeral : d \in Text(V) /\ d # ":"
  BY NumeralAssumption DEF Text
<1>4. s.port \in Text(V) \ {":"}
  BY <1>1, <1>2, <1>3
<1>5. {":", "->", "space"} \subseteq V /\ s.state \in V \ {":", "->"}
  BY <1>1
<1> HIDE DEF V
<1> DEFINE T == Text(V)
<1>6. Hosts \subseteq Seq(T) /\ <<>> \in Seq(T)
  <2>1. <<"*">> \in Seq(T) /\ <<"[", ":", ":", "1", "]">> \in Seq(T)
    <3>1. "*" \in T /\ "[" \in T /\ ":" \in T /\ "1" \in T /\ "]" \in T
      BY <1>2
    <3> HIDE DEF T
    <3> QED BY <3>1
  <2> HIDE DEF T
  <2> QED BY <2>1 DEF Hosts
<1>7. s.host \in Seq(T) /\ s.peer \in Seq(T) /\ s.peer_port \in T
  BY <1>1, <1>2, <1>6
<1>8. s.command \in Int /\ s.pid \in Int
  BY <1>1
<1> QED BY <1>1, <1>4, <1>5, <1>7, <1>8 DEF IsSocket

\* What is collected of a line of lsof is what was printed, or nothing where a
\* state comes right behind the port (LsofIsRead).
THEOREM LsofRead == Spec => []LsofIsRead
<1>1. CallInv => LsofIsRead
  <2> SUFFICES ASSUME CallInv, call.function = "report"
               PROVE  CollectLsofFallback(<<LineOf(call.socket)>>)
                        = IF Reportable(call.socket) /\ ~StateBehindPort(call.socket)
                          THEN <<Expected(call.socket)>>
                          ELSE <<>>
    BY Zenon DEF LsofIsRead
  <2> DEFINE s == call.socket
             x == EntryOf(LineOf(s))
             kept == Reportable(s) /\ ~StateBehindPort(s)
  <2>1. PICK V : IsSocket(V, s)
    BY SocketsType DEF CallInv
  <2> HIDE DEF s
  <2>2. /\ kept => x = <<Expected(s)>>
        /\ ~kept => x = <<>>
    BY <2>1, LineIsRead, Zenon
  <2>3. kept => Expected(s) \in SocketEntries
    <3> SUFFICES ASSUME Reportable(s) PROVE Expected(s) \in SocketEntries
      OBVIOUS
    <3>1. s.pid \in Int /\ s.command \in Int
      BY <2>1 DEF IsSocket
    <3>2. Numeral[s.port] \in Int
      BY NumeralAssumption DEF Reportable
    <3>3. StateOf(s) \in SocketStates
      BY DEF StateOf, SocketStates
    <3> QED BY <3>1, <3>2, <3>3 DEF Expected, SocketEntries
  <2> HIDE DEF kept
  <2>4. x = <<>> \/ \E e \in SocketEntries : x = <<e>>
    BY <2>2, <2>3
  <2>5. CollectLsofFallback(<<LineOf(s)>>) = x
    BY <2>4, CollectOne
  <2>6. x = IF kept THEN <<Expected(s)>> ELSE <<>>
    BY <2>2
  <2> HIDE DEF x
  <2> QED BY <2>5, <2>6, Zenon DEF s, kept
<1> QED BY <1>1, CallInvariance, PTL

----------------------------------------------------------------------------
(* The window of the table *)

\* There is room for three rows at least.
LEMMA LimitPositive ==
  ASSUME NEW expanded \in BOOLEAN, NEW height \in Int
  PROVE  GroupLimit(expanded, height) \in 3 .. 16
<1>1. ExpandedDetailLimit(height) \in 3 .. 8
  BY DEF ExpandedDetailLimit, Clamp
<1>2. ExpandedGroupLimit(height) \in 3 .. 8
  BY <1>1 DEF ExpandedGroupLimit, Clamp
<1> QED BY <1>2 DEF GroupLimit

\* The window of VisibleGroupRange holds the selected row, is inside the table
\* and no longer than the limit, in tables and terminals of any size.
THEOREM FocusAlwaysDrawn ==
  ASSUME NEW size \in Nat, NEW selected_row \in 0 .. size - 1,
         NEW expanded \in BOOLEAN, NEW height \in Int
  PROVE  FocusIsDrawn(selected_row, size, expanded, height)
<1> DEFINE limit == GroupLimit(expanded, height)
           first == FirstGroup(selected_row, limit)
<1>1. limit \in 3 .. 16
  BY LimitPositive
<1>2. /\ first \in 0 .. selected_row
      /\ selected_row < first + limit
  BY <1>1 DEF FirstGroup
<1> QED BY <1>1, <1>2 DEF FocusIsDrawn, VisibleGroupRange

\* What Render draws includes the focus (WindowShowsFocus).
THEOREM FocusShown == Spec => []WindowShowsFocus
<1>1. CallInv => WindowShowsFocus
  <2> SUFFICES ASSUME CallInv, call.function = "layout"
               PROVE  FocusIsDrawn(call.selected_row, call.size, call.expanded, call.height)
    BY DEF WindowShowsFocus
  <2>1. /\ call.size \in Nat /\ call.height \in Int /\ call.expanded \in BOOLEAN
        /\ call.selected_row \in 0 .. call.size - 1
    BY InputsAssumption DEF CallInv
  <2> QED BY <2>1, FocusAlwaysDrawn
<1> QED BY <1>1, CallInvariance, PTL
=============================================================================
