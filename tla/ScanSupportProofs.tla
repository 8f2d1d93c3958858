------------------------- MODULE ScanSupportProofs -------------------------
(***************************************************************************)
(* The sequential part of a scan, for any number of entries: what          *)
(* FinalizeSnapshot makes of them.                                         *)
(***************************************************************************)
EXTENDS ScanSupport, SequenceLemmas

\* The members of a SocketEntry.
SocketEntries ==
  [pid : Int, name : Int, port : Int, protocol : Int, state : SocketStates, fd_count : Nat]

\* The lexicographic order of tuples, as a set.
Tuples(n) == [1 .. n -> Int]
LexOrder(n) == {x \in Tuples(n) \X Tuples(n) : LexLess(x[1], x[2])}

LEMMA LexTotal ==
  ASSUME NEW n \in Nat
  PROVE  StrictTotalOrder(Tuples(n), LexOrder(n))
<1> DEFINE L(s, t) == \E i \in 1 .. n : s[i] < t[i] /\ \A j \in 1 .. i - 1 : s[j] = t[j]
<1>1. \A s, t \in Tuples(n) : <<s, t>> \in LexOrder(n) <=> L(s, t)
  BY DEF LexOrder, Tuples, LexLess
<1>2. \A s \in Tuples(n), i \in 1 .. n : s[i] \in Int
  BY DEF Tuples
<1>3. ASSUME NEW s \in Tuples(n), NEW t \in Tuples(n), s # t PROVE L(s, t) \/ L(t, s)
  <2> DEFINE D == {i \in 1 .. n : s[i] # t[i]}
  <2>1. D # {} /\ D \subseteq Nat /\ D \subseteq 1 .. n
    BY <1>3, SMTT(40) DEF Tuples
  <2>2. Min(D) \in D /\ \A y \in D : Min(D) <= y
    <3> HIDE DEF D
    <3> QED BY <2>1, MinOfSome
  <2>3. PICK i \in D : \A y \in D : i <= y
    BY <2>2
  <2>4. i \in 1 .. n /\ s[i] # t[i] /\ s[i] \in Int /\ t[i] \in Int
    BY <1>2, <2>3
  <2>5. \A j \in 1 .. i - 1 : s[j] = t[j]
    BY <2>3, <2>4
  <2>6. s[i] < t[i] \/ t[i] < s[i]
    BY <2>4
  <2> HIDE DEF D
  <2> QED BY <2>4, <2>5, <2>6
<1>4. ASSUME NEW s \in Tuples(n), L(s, s) PROVE FALSE
  BY <1>2, <1>4
<1>5. ASSUME NEW s \in Tuples(n), NEW t \in Tuples(n), NEW u \in Tuples(n), L(s, t), L(t, u)
      PROVE  L(s, u)
  <2>1. PICK i \in 1 .. n : s[i] < t[i] /\ \A j \in 1 .. i - 1 : s[j] = t[j]
    BY <1>5
  <2>2. PICK k \in 1 .. n : t[k] < u[k] /\ \A j \in 1 .. k - 1 : t[j] = u[j]
    BY <1>5
  <2>3. /\ s[i] \in Int /\ t[i] \in Int /\ u[i] \in Int
        /\ s[k] \in Int /\ t[k] \in Int /\ u[k] \in Int
    BY <1>2
  <2>4. CASE i < k
    <3>1. s[i] < u[i] /\ \A j \in 1 .. i - 1 : s[j] = u[j]
      BY <2>1, <2>2, <2>3, <2>4
    <3> QED BY <3>1
  <2>5. CASE i = k
    <3>1. s[i] < u[i] /\ \A j \in 1 .. i - 1 : s[j] = u[j]
      BY <2>1, <2>2, <2>3, <2>5
    <3> QED BY <3>1
  <2>6. CASE i > k
    <3>1. s[k] < u[k] /\ \A j \in 1 .. k - 1 : s[j] = u[j]
      BY <2>1, <2>2, <2>3, <2>6
    <3> QED BY <3>1
  <2> QED BY <2>4, <2>5, <2>6
<1> HIDE DEF L
<1> QED BY <1>1, <1>3, <1>4, <1>5 DEF StrictTotalOrder

ScanKeys == [e \in SocketEntries |-> <<e.pid, e.name, e.port, e.protocol, StateRank[e.state]>>]
ShownKeys == [e \in SocketEntries |-> <<e.port, e.pid, e.name, e.protocol>>]

LEMMA KeysTyped ==
  ScanKeys \in [SocketEntries -> Tuples(5)] /\ ShownKeys \in [SocketEntries -> Tuples(4)]
<1>1. ASSUME NEW a \in Int, NEW b \in Int, NEW c \in Int, NEW d \in Int, NEW e \in Int
      PROVE  <<a, b, c, d, e>> \in Tuples(5) /\ <<a, b, c, d>> \in Tuples(4)
  BY DEF Tuples
<1>2. ASSUME NEW e \in SocketEntries
      PROVE  /\ e.pid \in Int /\ e.name \in Int /\ e.port \in Int /\ e.protocol \in Int
             /\ StateRank[e.state] \in Int
  BY DEF SocketEntries, SocketStates, StateRank
<1> QED BY <1>1, <1>2 DEF ScanKeys, ShownKeys

LEMMA OrdersByKeys ==
  ASSUME NEW a \in SocketEntries, NEW b \in SocketEntries
  PROVE  /\ ScanOrder(a, b) <=> LessByKey(ScanKeys, LexOrder(5), a, b)
         /\ ShownOrder(a, b) <=> LessByKey(ShownKeys, LexOrder(4), a, b)
<1>1. /\ ScanKeys[a] \in Tuples(5) /\ ScanKeys[b] \in Tuples(5)
      /\ ShownKeys[a] \in Tuples(4) /\ ShownKeys[b] \in Tuples(4)
  BY KeysTyped
<1>2. ScanOrder(a, b) <=> LexLess(ScanKeys[a], ScanKeys[b])
  BY Zenon DEF ScanOrder, ScanKeys
<1>3. ShownOrder(a, b) <=> LexLess(ShownKeys[a], ShownKeys[b])
  BY Zenon DEF ShownOrder, ShownKeys
<1> QED BY <1>1, <1>2, <1>3 DEF LessByKey, LexOrder

\* Both sorts of FinalizeSnapshot rearrange the entries and put them in order.
LEMMA ScanSorted ==
  ASSUME NEW s \in Seq(SocketEntries)
  PROVE  \E p : IsSortedBy(Sorted(s, ScanOrder), s, p, ScanKeys, LexOrder(5))
<1>1. ASSUME NEW i \in DOMAIN s
      PROVE  Place(s, ScanOrder, i) = PlacesByKey(s, ScanKeys, LexOrder(5))[i]
  <2>1. \A j \in DOMAIN s : /\ ScanOrder(s[j], s[i]) <=> LessByKey(ScanKeys, LexOrder(5), s[j], s[i])
                            /\ ScanOrder(s[i], s[j]) <=> LessByKey(ScanKeys, LexOrder(5), s[i], s[j])
    <3>1. \A j \in DOMAIN s : s[j] \in SocketEntries
      OBVIOUS
    <3> QED BY <3>1, OrdersByKeys
  <2>2. {j \in DOMAIN s : ScanOrder(s[j], s[i]) \/ (~ScanOrder(s[i], s[j]) /\ j <= i)}
          = {j \in DOMAIN s : \/ LessByKey(ScanKeys, LexOrder(5), s[j], s[i])
                              \/ ~LessByKey(ScanKeys, LexOrder(5), s[i], s[j]) /\ j <= i}
    BY <2>1
  <2> QED BY <2>2, Zenon DEF Place, PlacesByKey
<1> DEFINE place == [i \in DOMAIN s |-> Place(s, ScanOrder, i)]
<1>2. place = PlacesByKey(s, ScanKeys, LexOrder(5))
  BY <1>1, Zenon DEF PlacesByKey
<1> HIDE DEF place
<1>3. Sorted(s, ScanOrder) = Placed(s, place)
  BY Zenon DEF Sorted, Placed, place
<1>4. ScanKeys \in [SocketEntries -> Tuples(5)] /\ StrictTotalOrder(Tuples(5), LexOrder(5))
  BY KeysTyped, LexTotal
<1> QED BY <1>2, <1>3, <1>4, SortedByKey

LEMMA ShownSorted ==
  ASSUME NEW s \in Seq(SocketEntries)
  PROVE  \E p : IsSortedBy(Sorted(s, ShownOrder), s, p, ShownKeys, LexOrder(4))
<1>1. ASSUME NEW i \in DOMAIN s
      PROVE  Place(s, ShownOrder, i) = PlacesByKey(s, ShownKeys, LexOrder(4))[i]
  <2>1. \A j \in DOMAIN s : /\ ShownOrder(s[j], s[i]) <=> LessByKey(ShownKeys, LexOrder(4), s[j], s[i])
                            /\ ShownOrder(s[i], s[j]) <=> LessByKey(ShownKeys, LexOrder(4), s[i], s[j])
    <3>1. \A j \in DOMAIN s : s[j] \in SocketEntries
      OBVIOUS
    <3> QED BY <3>1, OrdersByKeys
  <2>2. {j \in DOMAIN s : ShownOrder(s[j], s[i]) \/ (~ShownOrder(s[i], s[j]) /\ j <= i)}
          = {j \in DOMAIN s : \/ LessByKey(ShownKeys, LexOrder(4), s[j], s[i])
                              \/ ~LessByKey(ShownKeys, LexOrder(4), s[i], s[j]) /\ j <= i}
    BY <2>1
  <2> QED BY <2>2, Zenon DEF Place, PlacesByKey
<1> DEFINE place == [i \in DOMAIN s |-> Place(s, ShownOrder, i)]
<1>2. place = PlacesByKey(s, ShownKeys, LexOrder(4))
  BY <1>1, Zenon DEF PlacesByKey
<1> HIDE DEF place
<1>3. Sorted(s, ShownOrder) = Placed(s, place)
  BY Zenon DEF Sorted, Placed, place
<1>4. ShownKeys \in [SocketEntries -> Tuples(4)] /\ StrictTotalOrder(Tuples(4), LexOrder(4))
  BY KeysTyped, LexTotal
<1> QED BY <1>2, <1>3, <1>4, SortedByKey

----------------------------------------------------------------------------
(* Compacting *)

\* What an entry that absorbs another one keeps and takes.
LEMMA AbsorbMembers ==
  ASSUME NEW d \in SocketEntries, NEW e \in SocketEntries
  PROVE  /\ Absorb(d, e) \in SocketEntries /\ SocketOf(Absorb(d, e)) = SocketOf(d)
         /\ Absorb(d, e).fd_count = d.fd_count + e.fd_count
         /\ Absorb(d, e).state = IF StatePriority[e.state] > StatePriority[d.state] THEN e.state
                                 ELSE d.state
<1> DEFINE state == IF StatePriority[e.state] > StatePriority[d.state] THEN e.state ELSE d.state
<1>1. /\ d.pid \in Int /\ d.name \in Int /\ d.port \in Int /\ d.protocol \in Int
      /\ d.state \in SocketStates /\ e.state \in SocketStates
      /\ d.fd_count \in Nat /\ e.fd_count \in Nat
  BY DEF SocketEntries
<1>2. d = [pid |-> d.pid, name |-> d.name, port |-> d.port, protocol |-> d.protocol,
           state |-> d.state, fd_count |-> d.fd_count]
  BY DEF SocketEntries
<1>3. Absorb(d, e)
        = [pid |-> d.pid, name |-> d.name, port |-> d.port, protocol |-> d.protocol,
           state |-> state, fd_count |-> d.fd_count + e.fd_count]
  <2> DEFINE counted == [d EXCEPT !.fd_count = d.fd_count + e.fd_count]
  <2>1. counted = [pid |-> d.pid, name |-> d.name, port |-> d.port, protocol |-> d.protocol,
                   state |-> d.state, fd_count |-> d.fd_count + e.fd_count]
    BY <1>2
  <2>2. Absorb(d, e)
          = [counted EXCEPT !.state = IF StatePriority[e.state] > StatePriority[counted.state]
                                      THEN e.state ELSE counted.state]
    BY DEF Absorb
  <2> HIDE DEF counted
  <2>3. counted.state = d.state
    BY <2>1
  <2>4. Absorb(d, e) = [counted EXCEPT !.state = state]
    BY <2>2, <2>3
  <2> HIDE DEF state
  <2> QED BY <2>1, <2>4
<1>4. state \in SocketStates /\ d.fd_count + e.fd_count \in Nat
  BY <1>1
<1> HIDE DEF state
<1>5. Absorb(d, e) \in SocketEntries
  BY <1>1, <1>3, <1>4 DEF SocketEntries
<1>6. SocketOf(Absorb(d, e)) = SocketOf(d)
  BY <1>3 DEF SocketOf
<1>7. Absorb(d, e).fd_count = d.fd_count + e.fd_count /\ Absorb(d, e).state = state
  BY <1>3
<1> QED BY <1>5, <1>6, <1>7 DEF state

\* Compacting an entry appends it or changes the last entry.
LEMMA CompactType ==
  ASSUME NEW done \in Seq(SocketEntries), NEW e \in SocketEntries
  PROVE  Compact(done, e) \in Seq(SocketEntries)
<1>1. CASE done = <<>> \/ ~SameSocket(Last(done), e)
  BY <1>1 DEF Compact
<1>2. CASE done # <<>> /\ SameSocket(Last(done), e)
  <2>1. Len(done) \in 1 .. Len(done) /\ done[Len(done)] \in SocketEntries
    BY <1>2, FrontAndLast
  <2>2. Absorb(done[Len(done)], e) \in SocketEntries
    BY <2>1, AbsorbMembers
  <2> DEFINE a == Absorb(done[Len(done)], e)
  <2>3. Compact(done, e) = [done EXCEPT ![Len(done)] = a]
    BY <1>2 DEF Compact
  <2> HIDE DEF a
  <2> QED BY <2>1, <2>2, <2>3 DEF a
<1> QED BY <1>1, <1>2

\* The compacted entries are the last of the states of the loop.
LEMMA CompactedStates ==
  ASSUME NEW s \in Seq(SocketEntries)
  PROVE  \E f \in [0 .. Len(s) -> Seq(SocketEntries)] :
           /\ f[0] = <<>>
           /\ \A k \in 1 .. Len(s) : f[k] = Compact(f[k - 1], s[k])
           /\ Compacted(s) = f[Len(s)]
<1> DEFINE n == Len(s)
           A == Seq(SocketEntries)
           H == [x \in A \X (1 .. n) |-> Compact(x[1], s[x[2]])]
           Rule(g) == g = [t \in SUBSET DOMAIN s |->
                             IF t = {} THEN <<>>
                             ELSE Compact(g[t \ {Max(t)}], s[Max(t)])]
           it == CHOOSE g : Rule(g)
<1>1. n \in Nat /\ DOMAIN s = 1 .. n /\ \A k \in 1 .. n : s[k] \in SocketEntries
  OBVIOUS
<1>2. <<>> \in A
  OBVIOUS
<1>3. H \in [A \X (1 .. n) -> A]
  <2>1. \A d \in A, e \in SocketEntries : Compact(d, e) \in A
    BY CompactType, Zenon
  <2> HIDE DEF A
  <2> QED BY <1>1, <2>1
<1> HIDE DEF A, n
<1>4. PICK g \in [SUBSET (1 .. n) -> A] : IsFold(g, <<>>, n, H)
  <2> HIDE DEF H, Rule, it
  <2> QED BY <1>1, <1>2, <1>3, FoldExists
<1>5. \A t \in SUBSET (1 .. n) : t # {} => Max(t) \in 1 .. n
  BY <1>1, MaxOfSome
<1>6. Rule(g)
  <2>1. ASSUME NEW t \in SUBSET (1 .. n), t # {}
        PROVE  H[<<g[t \ {Max(t)}], Max(t)>>] = Compact(g[t \ {Max(t)}], s[Max(t)])
    <3>1. g[t \ {Max(t)}] \in A /\ Max(t) \in 1 .. n
      BY <1>5, <2>1
    <3> QED BY <3>1
  <2>2. \A t \in SUBSET (1 .. n) : g[t] = IF t = {} THEN <<>>
                                          ELSE H[<<g[t \ {Max(t)}], Max(t)>>]
    BY <1>4 DEF IsFold
  <2> HIDE DEF H
  <2> QED BY <1>1, <2>1, <2>2
<1>7. Rule(it)
  BY <1>6, Zenon
<1> HIDE DEF H
<1>8. \A k \in 1 .. n : /\ 1 .. k \in SUBSET (1 .. n) /\ 1 .. k # {}
                        /\ Max(1 .. k) = k /\ (1 .. k) \ {k} = 1 .. k - 1
  <2> SUFFICES ASSUME NEW k \in 1 .. n
               PROVE  /\ 1 .. k \in SUBSET (1 .. n) /\ 1 .. k # {}
                      /\ Max(1 .. k) = k /\ (1 .. k) \ {k} = 1 .. k - 1
    OBVIOUS
  <2>1. k \in Nat /\ k \in 1 .. k /\ 1 .. k \in SUBSET (1 .. n)
    BY <1>1
  <2>2. Max(1 .. k) \in 1 .. k /\ k <= Max(1 .. k)
    BY <2>1, MaxOfSome
  <2> QED BY <2>1, <2>2
<1> DEFINE f == [k \in 0 .. n |-> it[1 .. k]]
<1>9. f[0] = <<>>
  <2>1. 1 .. 0 = {} /\ 0 \in 0 .. n /\ 1 .. 0 \in SUBSET DOMAIN s
    BY <1>1
  <2> QED BY <1>7, <2>1
<1>10. \A k \in 1 .. n : f[k] = Compact(f[k - 1], s[k])
  <2> SUFFICES ASSUME NEW k \in 1 .. n PROVE f[k] = Compact(f[k - 1], s[k])
    OBVIOUS
  <2>1. k \in 0 .. n /\ k - 1 \in 0 .. n
    BY <1>1
  <2>2. it[1 .. k] = Compact(it[1 .. k - 1], s[k])
    <3> DEFINE t == 1 .. k
    <3>1. t \in SUBSET DOMAIN s /\ t # {} /\ Max(t) = k /\ t \ {Max(t)} = 1 .. k - 1
      BY <1>1, <1>8
    <3>2. it[t] = Compact(it[t \ {Max(t)}], s[Max(t)])
      <4> HIDE DEF t, it
      <4> QED BY <1>7, <3>1
    <3> HIDE DEF it
    <3> QED BY <3>1, <3>2
  <2> HIDE DEF it
  <2> QED BY <2>1, <2>2
<1>11. Compacted(s) = f[n]
  <2>1. Compacted(s) = it[1 .. n]
    BY <1>1 DEF Compacted, FoldLeft, MapThenFoldSet
  <2> HIDE DEF it
  <2> QED BY <1>1, <2>1
<1> HIDE DEF f
<1>12. \A k \in 0 .. n : k \in {i \in 0 .. n : f[i] \in A}
  <2>1. 0 \in {i \in 0 .. n : f[i] \in A}
    BY <1>1, <1>2, <1>9
  <2>2. ASSUME NEW k \in 1 .. n, k - 1 \in {i \in 0 .. n : f[i] \in A}
        PROVE  k \in {i \in 0 .. n : f[i] \in A}
    <3>1. Compact(f[k - 1], s[k]) \in A
      BY <1>1, <2>2, CompactType, Zenon DEF A
    <3> QED BY <1>1, <1>10, <3>1
  <2> QED BY <1>1, <2>1, <2>2, InductionUpTo
<1>13. f \in [0 .. n -> A]
  BY <1>12 DEF f
<1> QED BY <1>9, <1>10, <1>11, <1>13 DEF n, A

\* The entries of s at the positions I that are of the socket of d.
SameIn(s, I, d) == {i \in I : SameSocket(s[i], d)}

\* Entry d stands for all entries of its socket among those at I.
StandsFor(d, s, I) ==
  /\ d.fd_count = Cardinality(SameIn(s, I, d))
  /\ \E i \in SameIn(s, I, d) : d.state = s[i].state
  /\ \A i \in SameIn(s, I, d) : StatePriority[s[i].state] <= StatePriority[d.state]

DistinctSockets(s) == \A i, j \in DOMAIN s : SocketOf(s[i]) = SocketOf(s[j]) => i = j

\* One entry of done stands for every socket among the entries of s at I.
IsCompacted(done, s, I) ==
  /\ \A i \in I : \E j \in DOMAIN done : SameSocket(done[j], s[i])
  /\ \A j \in DOMAIN done : StandsFor(done[j], s, I)
  /\ DistinctSockets(done)

\* As ScanPid reads the entries: one descriptor each.
Single(s) == \A i \in DOMAIN s : s[i].fd_count = 1

\* An entry of another socket changes nothing.
LEMMA StandsForOther ==
  ASSUME NEW s, NEW I, NEW k, NEW d, ~SameSocket(s[k], d), StandsFor(d, s, I)
  PROVE  StandsFor(d, s, I \cup {k})
<1>1. SameIn(s, I \cup {k}, d) = SameIn(s, I, d)
  BY DEF SameIn
<1> QED BY <1>1, Zenon DEF StandsFor

\* The first entry of a socket stands for itself.
LEMMA StandsForFirst ==
  ASSUME NEW s \in Seq(SocketEntries), Single(s), NEW k \in DOMAIN s, NEW I \in SUBSET DOMAIN s,
         \A i \in I : ~SameSocket(s[i], s[k])
  PROVE  StandsFor(s[k], s, I \cup {k})
<1>1. SameIn(s, I \cup {k}, s[k]) = {k}
  BY DEF SameIn, SameSocket
<1>2. Cardinality({k}) = 1
  BY FS_Singleton
<1>3. s[k] \in SocketEntries /\ s[k].fd_count = 1
  BY DEF Single
<1>4. StatePriority[s[k].state] <= StatePriority[s[k].state]
  BY <1>3, SMTT(40) DEF SocketEntries, SocketStates, StatePriority
<1> QED BY <1>1, <1>2, <1>3, <1>4 DEF StandsFor

\* With an entry absorbed, an entry stands for that one too.
LEMMA StandsForAbsorbed ==
  ASSUME NEW s \in Seq(SocketEntries), Single(s), NEW k \in DOMAIN s, NEW I \in SUBSET DOMAIN s,
         k \notin I, IsFiniteSet(I),
         NEW d \in SocketEntries, SameSocket(d, s[k]), StandsFor(d, s, I)
  PROVE  StandsFor(Absorb(d, s[k]), s, I \cup {k})
<1> DEFINE a == Absorb(d, s[k])
<1>1. s[k] \in SocketEntries /\ s[k].fd_count = 1
  BY DEF Single
<1>2. /\ SocketOf(a) = SocketOf(d) /\ a.fd_count = d.fd_count + 1
      /\ a.state = IF StatePriority[s[k].state] > StatePriority[d.state] THEN s[k].state
                   ELSE d.state
  BY <1>1, AbsorbMembers
<1> HIDE DEF a
<1>3. SameIn(s, I \cup {k}, a) = SameIn(s, I, d) \cup {k}
  BY <1>2 DEF SameIn, SameSocket
<1>4. k \notin SameIn(s, I, d) /\ IsFiniteSet(SameIn(s, I, d))
  <2>1. SameIn(s, I, d) \subseteq I
    BY DEF SameIn
  <2> QED BY <2>1, FS_Subset
<1>5. Cardinality(SameIn(s, I, d) \cup {k}) = Cardinality(SameIn(s, I, d)) + 1
  BY <1>4, FS_AddElement
<1>6. ASSUME NEW e \in SocketEntries PROVE StatePriority[e.state] \in Nat
  <2>1. e.state \in SocketStates
    BY DEF SocketEntries
  <2> QED BY <2>1 DEF SocketStates, StatePriority
<1>7. \A i \in SameIn(s, I, d) : s[i] \in SocketEntries
  BY DEF SameIn
<1>8. /\ StatePriority[a.state] >= StatePriority[s[k].state]
      /\ StatePriority[a.state] >= StatePriority[d.state]
      /\ StatePriority[a.state] \in Nat
  BY <1>1, <1>2, <1>6
<1>9. \A i \in SameIn(s, I, d) \cup {k} : StatePriority[s[i].state] <= StatePriority[a.state]
  <2> SUFFICES ASSUME NEW i \in SameIn(s, I, d)
               PROVE  StatePriority[s[i].state] <= StatePriority[a.state]
    BY <1>8
  <2>1. StatePriority[s[i].state] <= StatePriority[d.state]
    BY DEF StandsFor
  <2> QED BY <1>6, <1>7, <1>8, <2>1
<1>10. \E i \in SameIn(s, I, d) \cup {k} : a.state = s[i].state
  <2>1. PICK i \in SameIn(s, I, d) : d.state = s[i].state
    BY DEF StandsFor
  <2>2. a.state = s[k].state \/ a.state = s[i].state
    BY <1>2, <2>1
  <2> QED BY <2>2
<1>11. a.fd_count = Cardinality(SameIn(s, I \cup {k}, a))
  BY <1>2, <1>3, <1>5 DEF StandsFor
<1>12. StandsFor(a, s, I \cup {k})
  BY <1>3, <1>9, <1>10, <1>11 DEF StandsFor
<1> QED BY <1>12 DEF a

\* The entries of a socket are next to each other.
Grouped(s) ==
  \A i, j, k \in DOMAIN s : i < j /\ j < k /\ SameSocket(s[i], s[k]) => SameSocket(s[j], s[k])

\* A step of the loop takes the next entry in.
LEMMA CompactStep ==
  ASSUME NEW s \in Seq(SocketEntries), Single(s), Grouped(s),
         NEW k \in DOMAIN s, NEW done \in Seq(SocketEntries),
         IsCompacted(done, s, 1 .. k - 1),
         k = 1 => done = <<>>,
         k > 1 => done # <<>> /\ SameSocket(Last(done), s[k - 1])
  PROVE  LET next == Compact(done, s[k])
         IN  /\ IsCompacted(next, s, 1 .. k)
             /\ next # <<>> /\ SameSocket(Last(next), s[k])
<1> DEFINE next == Compact(done, s[k])
           I == 1 .. k - 1
           m == Len(done)
<1>1. /\ DOMAIN s = 1 .. Len(s) /\ Len(s) \in Nat /\ k \in 1 .. Len(s) /\ s[k] \in SocketEntries
      /\ m \in Nat /\ DOMAIN done = 1 .. m /\ \A j \in 1 .. m : done[j] \in SocketEntries
  OBVIOUS
<1>2. I \cup {k} = 1 .. k /\ k \notin I /\ I \in SUBSET DOMAIN s /\ \A i \in I : i \in Int
  BY <1>1
<1>3. IsFiniteSet(I)
  <2> DEFINE l == k - 1
  <2>1. l \in Int
    BY <1>1
  <2> HIDE DEF l
  <2>2. IsFiniteSet(1 .. l)
    BY <2>1, FS_Interval
  <2> QED BY <2>2, Zenon DEF l
<1>4. ASSUME done # <<>> PROVE m \in 1 .. m /\ Last(done) = done[m]
  <2>1. m \in Nat \ {0} /\ Last(done) = done[m]
    BY <1>4, FrontAndLast
  <2> HIDE DEF m
  <2> QED BY <2>1
<1> HIDE DEF m, I
<1>5. IsCompacted(done, s, I)
  BY DEF I
<1>6. CASE done = <<>> \/ ~SameSocket(Last(done), s[k])
  <2>1. next = Append(done, s[k])
    BY <1>6 DEF Compact
  <2>2. /\ next \in Seq(SocketEntries) /\ Len(next) = m + 1 /\ DOMAIN next = 1 .. m + 1
        /\ \A j \in 1 .. m : next[j] = done[j]
        /\ next[m + 1] = s[k]
    BY <1>1, <2>1 DEF m
  <2> HIDE DEF next
  <2>3. \A i \in I : ~SameSocket(s[i], s[k])
    <3> SUFFICES ASSUME NEW i \in I, SameSocket(s[i], s[k]) PROVE FALSE
      OBVIOUS
    <3>1. i \in 1 .. Len(s) /\ i <= k - 1 /\ k > 1 /\ k - 1 \in 1 .. Len(s)
      BY <1>1 DEF I
    <3>2. ~SameSocket(s[k - 1], s[k])
      BY <1>6, <3>1 DEF SameSocket
    <3>3. i < k - 1
      BY <3>1, <3>2
    <3>4. i < k - 1 /\ k - 1 < k /\ i \in DOMAIN s /\ k - 1 \in DOMAIN s
      BY <1>1, <3>1, <3>3
    <3> QED BY <3>2, <3>4 DEF Grouped
  <2>4. \A j \in 1 .. m : \E i \in I : SameSocket(s[i], done[j])
    BY <1>1, <1>5 DEF IsCompacted, StandsFor, SameIn
  <2>5. \A j \in 1 .. m : ~SameSocket(s[k], done[j])
    BY <2>3, <2>4 DEF SameSocket
  <2>6. \A j \in 1 .. m + 1 : j \in 1 .. m \/ j = m + 1
    BY <1>1
  <2>7. \A i \in I \cup {k} : \E j \in DOMAIN next : SameSocket(next[j], s[i])
    <3>1. \A i \in I : \E j \in 1 .. m : SameSocket(done[j], s[i])
      BY <1>1, <1>5 DEF IsCompacted
    <3>2. m + 1 \in DOMAIN next /\ SameSocket(next[m + 1], s[k]) /\ 1 .. m \subseteq DOMAIN next
      BY <1>1, <2>2 DEF SameSocket
    <3> QED BY <2>2, <3>1, <3>2
  <2>8. \A j \in DOMAIN next : StandsFor(next[j], s, I \cup {k})
    <3>1. \A j \in 1 .. m : StandsFor(next[j], s, I \cup {k})
      <4> SUFFICES ASSUME NEW j \in 1 .. m PROVE StandsFor(done[j], s, I \cup {k})
        BY <2>2
      <4>1. StandsFor(done[j], s, I) /\ ~SameSocket(s[k], done[j])
        BY <1>1, <1>5, <2>5 DEF IsCompacted
      <4> QED BY <4>1, StandsForOther
    <3>2. StandsFor(next[m + 1], s, I \cup {k})
      BY <1>2, <2>2, <2>3, StandsForFirst
    <3> QED BY <2>2, <2>6, <3>1, <3>2
  <2>9. DistinctSockets(next)
    <3> SUFFICES ASSUME NEW i \in 1 .. m + 1, NEW j \in 1 .. m + 1, SocketOf(next[i]) = SocketOf(next[j])
                 PROVE  i = j
      BY <2>2 DEF DistinctSockets
    <3>1. CASE i \in 1 .. m /\ j \in 1 .. m
      BY <1>1, <1>5, <2>2, <3>1 DEF IsCompacted, DistinctSockets
    <3>2. CASE i = m + 1 /\ j \in 1 .. m
      BY <2>2, <2>5, <3>2 DEF SameSocket
    <3>3. CASE i \in 1 .. m /\ j = m + 1
      BY <2>2, <2>5, <3>3 DEF SameSocket
    <3> QED BY <2>6, <3>1, <3>2, <3>3
  <2>10. next # <<>> /\ SameSocket(Last(next), s[k])
    <3>1. next # <<>>
      BY <1>1, <2>2
    <3>2. Last(next) = next[m + 1]
      BY <2>2, <3>1, FrontAndLast
    <3> QED BY <2>2, <3>1, <3>2 DEF SameSocket
  <2>11. IsCompacted(next, s, 1 .. k)
    BY <1>2, <2>7, <2>8, <2>9 DEF IsCompacted
  <2> QED BY <2>10, <2>11 DEF next
<1>7. CASE done # <<>> /\ SameSocket(Last(done), s[k])
  <2> DEFINE a == Absorb(done[m], s[k])
  <2>1. next = [done EXCEPT ![m] = a]
    BY <1>7 DEF Compact, m
  <2>2. m \in 1 .. m /\ done[m] \in SocketEntries /\ SameSocket(done[m], s[k])
    BY <1>1, <1>4, <1>7
  <2>3. a \in SocketEntries /\ SocketOf(a) = SocketOf(done[m])
    BY <1>1, <2>2, AbsorbMembers
  <2> HIDE DEF a, next
  <2>4. /\ next \in Seq(SocketEntries) /\ DOMAIN next = 1 .. m /\ Len(next) = m
        /\ next[m] = a /\ \A j \in 1 .. m : j # m => next[j] = done[j]
    BY <1>1, <2>1, <2>2, <2>3
  <2>5. \A j \in 1 .. m : SocketOf(next[j]) = SocketOf(done[j])
    BY <2>3, <2>4
  <2>6. DistinctSockets(next)
    BY <1>1, <1>5, <2>4, <2>5 DEF IsCompacted, DistinctSockets
  <2>7. \A i \in I \cup {k} : \E j \in DOMAIN next : SameSocket(next[j], s[i])
    <3>1. \A i \in I : \E j \in 1 .. m : SameSocket(done[j], s[i])
      BY <1>1, <1>5 DEF IsCompacted
    <3> QED BY <2>2, <2>4, <2>5, <3>1 DEF SameSocket
  <2>8. ASSUME NEW j \in 1 .. m PROVE StandsFor(next[j], s, I \cup {k})
    <3>1. StandsFor(done[j], s, I)
      BY <1>1, <1>5 DEF IsCompacted
    <3>2. CASE j = m
      <4>1. StandsFor(a, s, I \cup {k})
        BY <1>2, <1>3, <2>2, <3>1, <3>2, StandsForAbsorbed DEF a
      <4> QED BY <2>4, <3>2, <4>1
    <3>3. CASE j # m
      <4>1. ~SameSocket(s[k], done[j])
        BY <1>1, <1>5, <2>2, <3>3 DEF IsCompacted, DistinctSockets, SameSocket
      <4> QED BY <2>4, <3>1, <3>3, <4>1, StandsForOther
    <3> QED BY <3>2, <3>3
  <2>9. IsCompacted(next, s, 1 .. k)
    BY <1>2, <2>4, <2>6, <2>7, <2>8 DEF IsCompacted
  <2>10. next # <<>> /\ SameSocket(Last(next), s[k])
    <3>1. next # <<>>
      BY <2>2, <2>4
    <3>2. Last(next) = next[m]
      BY <2>4, <3>1, FrontAndLast
    <3> QED BY <2>2, <2>5, <3>1, <3>2 DEF SameSocket
  <2> QED BY <2>9, <2>10 DEF next
<1> QED BY <1>6, <1>7 DEF next

\* What the loop leaves of grouped entries.
LEMMA CompactedStandsFor ==
  ASSUME NEW s \in Seq(SocketEntries), Single(s), Grouped(s)
  PROVE  Compacted(s) \in Seq(SocketEntries) /\ IsCompacted(Compacted(s), s, DOMAIN s)
<1> DEFINE n == Len(s)
<1>1. n \in Nat /\ DOMAIN s = 1 .. n
  OBVIOUS
<1>2. PICK f \in [0 .. n -> Seq(SocketEntries)] :
        /\ f[0] = <<>>
        /\ \A k \in 1 .. n : f[k] = Compact(f[k - 1], s[k])
        /\ Compacted(s) = f[n]
  BY CompactedStates
<1> HIDE DEF n
<1> DEFINE Inv(k) == /\ IsCompacted(f[k], s, 1 .. k)
                     /\ k = 0 => f[k] = <<>>
                     /\ k > 0 => f[k] # <<>> /\ SameSocket(Last(f[k]), s[k])
           S == {k \in 0 .. n : Inv(k)}
<1>3. 0 \in S
  <2>1. 0 \in 0 .. n /\ f[0] = <<>> /\ 1 .. 0 = {} /\ DOMAIN <<>> = {}
    BY <1>1, <1>2
  <2>2. IsCompacted(f[0], s, 1 .. 0)
    BY <2>1 DEF IsCompacted, DistinctSockets
  <2> QED BY <2>1, <2>2
<1>4. ASSUME NEW k \in 1 .. n, k - 1 \in S PROVE k \in S
  <2>1. k \in 0 .. n /\ k - 1 \in 0 .. n /\ k \in DOMAIN s /\ k \in Int /\ Inv(k - 1)
    BY <1>1, <1>4
  <2>2. f[k - 1] \in Seq(SocketEntries) /\ f[k] = Compact(f[k - 1], s[k])
    BY <1>2, <2>1
  <2>3. k = 1 => f[k - 1] = <<>>
    BY <2>1
  <2>4. k > 1 => f[k - 1] # <<>> /\ SameSocket(Last(f[k - 1]), s[k - 1])
    BY <2>1
  <2>5. IsCompacted(f[k - 1], s, 1 .. k - 1)
    BY <2>1
  <2>6. IsCompacted(f[k], s, 1 .. k) /\ f[k] # <<>> /\ SameSocket(Last(f[k]), s[k])
    <3> HIDE DEF Inv
    <3> QED BY <2>1, <2>2, <2>3, <2>4, <2>5, CompactStep
  <2>7. Inv(k)
    BY <1>1, <2>6
  <2> HIDE DEF Inv
  <2> QED BY <2>1, <2>7
<1>5. \A k \in 0 .. n : k \in S
  <2> HIDE DEF S
  <2> QED BY <1>1, <1>3, <1>4, InductionUpTo
<1>6. f[n] \in Seq(SocketEntries) /\ IsCompacted(f[n], s, 1 .. n)
  <2>1. n \in 0 .. n
    BY <1>1
  <2> QED BY <1>2, <1>5, <2>1
<1> QED BY <1>1, <1>2, <1>6

\* Entries of distinct sockets stay as they are.
LEMMA CompactedDistinct ==
  ASSUME NEW s \in Seq(SocketEntries), DistinctSockets(s)
  PROVE  Compacted(s) = s
<1> DEFINE n == Len(s)
<1>1. n \in Nat /\ DOMAIN s = 1 .. n /\ \A k \in 1 .. n : s[k] \in SocketEntries
  OBVIOUS
<1>2. PICK f \in [0 .. n -> Seq(SocketEntries)] :
        /\ f[0] = <<>>
        /\ \A k \in 1 .. n : f[k] = Compact(f[k - 1], s[k])
        /\ Compacted(s) = f[n]
  BY CompactedStates
<1> HIDE DEF n
<1> DEFINE Inv(k) == Len(f[k]) = k /\ \A i \in 1 .. k : f[k][i] = s[i]
           S == {k \in 0 .. n : Inv(k)}
<1>3. 0 \in S
  BY <1>1, <1>2
<1>4. ASSUME NEW k \in 1 .. n, k - 1 \in S PROVE k \in S
  <2> DEFINE done == f[k - 1]
  <2>1. k \in 0 .. n /\ k - 1 \in 0 .. n /\ k \in Int
    BY <1>1
  <2>2. /\ done \in Seq(SocketEntries) /\ Len(done) = k - 1
        /\ \A i \in 1 .. k - 1 : done[i] = s[i]
        /\ f[k] = Compact(done, s[k])
    BY <1>2, <1>4, <2>1
  <2> HIDE DEF done
  <2>3. ASSUME done # <<>> PROVE ~SameSocket(Last(done), s[k])
    <3>1. Len(done) \in Nat \ {0} /\ Last(done) = done[Len(done)]
      BY <2>2, <2>3, FrontAndLast
    <3>2. k - 1 \in DOMAIN s /\ k \in DOMAIN s /\ k - 1 # k /\ Last(done) = s[k - 1]
      <4>1. k - 1 \in 1 .. k - 1
        BY <2>1, <2>2, <3>1
      <4> QED BY <1>1, <2>1, <2>2, <3>1, <4>1
    <3> QED BY <3>2 DEF DistinctSockets, SameSocket
  <2>4. f[k] = Append(done, s[k])
    BY <2>2, <2>3 DEF Compact
  <2>5. Len(f[k]) = k /\ \A i \in 1 .. k : f[k][i] = s[i]
    BY <1>1, <2>1, <2>2, <2>4
  <2> QED BY <2>1, <2>5
<1>5. \A k \in 0 .. n : k \in S
  <2> HIDE DEF S
  <2> QED BY <1>1, <1>3, <1>4, InductionUpTo
<1>6. f[n] \in Seq(SocketEntries) /\ Len(f[n]) = n /\ \A i \in 1 .. n : f[n][i] = s[i]
  <2>1. n \in 0 .. n
    BY <1>1
  <2> QED BY <1>2, <1>5, <2>1
<1>7. f[n] = s
  BY <1>1, <1>6 DEF n
<1> QED BY <1>2, <1>7

\* The elements of t are those of s, rearranged by p.
IsRearranged(t, s, p) ==
  p \in Bijection(DOMAIN t, DOMAIN s) /\ \A k \in DOMAIN t : t[k] = s[p[k]]

\* A rearranged sequence has as many entries of every socket, in as many states.
LEMMA StandsForRearranged ==
  ASSUME NEW s \in Seq(SocketEntries), NEW t \in Seq(SocketEntries), NEW p, IsRearranged(t, s, p),
         NEW d, StandsFor(d, t, DOMAIN t)
  PROVE  StandsFor(d, s, DOMAIN s)
<1> DEFINE D == DOMAIN t
           E == DOMAIN s
           S == SameIn(t, D, d)
           T == SameIn(s, E, d)
           b == [k \in S |-> p[k]]
<1>1. /\ \A k \in D : p[k] \in E
      /\ \A i \in E : \E k \in D : p[k] = i
      /\ \A i, j \in D : p[i] = p[j] => i = j
  BY DEF IsRearranged, Bijection, Injection, Surjection, IsInjective
<1>2. \A k \in D : t[k] = s[p[k]]
  BY DEF IsRearranged
<1>3. StandsFor(d, t, D)
  OBVIOUS
<1>4. IsFiniteSet(D)
  <2> DEFINE n == Len(t)
  <2>1. n \in Nat /\ D = 1 .. n
    OBVIOUS
  <2> HIDE DEF n, D
  <2>2. IsFiniteSet(1 .. n)
    BY <2>1, FS_Interval
  <2> QED BY <2>1, <2>2
<1> HIDE DEF D, E
<1>5. IsFiniteSet(S)
  <2>1. S \subseteq D
    BY DEF SameIn
  <2> QED BY <1>4, <2>1, FS_Subset
<1>6. \A k \in D : k \in S <=> p[k] \in T
  BY <1>1, <1>2 DEF SameIn
<1>7. S \subseteq D /\ T \subseteq E
  BY DEF SameIn
<1> HIDE DEF S, T
<1>8. b \in Bijection(S, T)
  <2>1. b \in [S -> T]
    BY <1>6, <1>7
  <2>2. \A i, j \in S : b[i] = b[j] => i = j
    BY <1>1, <1>7
  <2>3. \A i \in T : \E k \in S : b[k] = i
    <3> SUFFICES ASSUME NEW i \in T PROVE \E k \in S : b[k] = i
      OBVIOUS
    <3>1. PICK k \in D : p[k] = i
      BY <1>1, <1>7
    <3> QED BY <1>6, <3>1
  <2> HIDE DEF b
  <2> QED BY <2>1, <2>2, <2>3 DEF Bijection, Injection, Surjection, IsInjective
<1>9. Cardinality(T) = Cardinality(S)
  BY <1>5, <1>8, FS_Bijection DEF ExistsBijection
<1>10. \E i \in T : d.state = s[i].state
  <2>1. PICK k \in S : d.state = t[k].state
    BY <1>3 DEF StandsFor, S
  <2>2. p[k] \in T /\ t[k] = s[p[k]]
    BY <1>2, <1>6, <1>7
  <2> QED BY <2>1, <2>2
<1>11. \A i \in T : StatePriority[s[i].state] <= StatePriority[d.state]
  <2> SUFFICES ASSUME NEW i \in T PROVE StatePriority[s[i].state] <= StatePriority[d.state]
    OBVIOUS
  <2>1. PICK k \in D : p[k] = i
    BY <1>1, <1>7
  <2>2. k \in S /\ t[k] = s[i]
    BY <1>2, <1>6, <2>1
  <2>3. StatePriority[t[k].state] <= StatePriority[d.state]
    BY <1>3, <2>2 DEF StandsFor, S
  <2> QED BY <2>2, <2>3
<1>12. d.fd_count = Cardinality(T)
  BY <1>3, <1>9 DEF StandsFor, S
<1> QED BY <1>10, <1>11, <1>12 DEF StandsFor, T, E

----------------------------------------------------------------------------
(* FinalizeSnapshot *)

\* The key of an entry begins with its socket; the other key is made of it.
LEMMA SocketKeys ==
  ASSUME NEW a \in SocketEntries, NEW b \in SocketEntries
  PROVE  /\ SameSocket(a, b) <=> \A i \in 1 .. 4 : ScanKeys[a][i] = ScanKeys[b][i]
         /\ SameSocket(a, b) <=> ShownKeys[a] = ShownKeys[b]
<1>1. /\ ScanKeys[a] = <<a.pid, a.name, a.port, a.protocol, StateRank[a.state]>>
      /\ ScanKeys[b] = <<b.pid, b.name, b.port, b.protocol, StateRank[b.state]>>
      /\ ShownKeys[a] = <<a.port, a.pid, a.name, a.protocol>>
      /\ ShownKeys[b] = <<b.port, b.pid, b.name, b.protocol>>
  BY DEF ScanKeys, ShownKeys
<1>2. SameSocket(a, b)
        <=> /\ a.pid = b.pid /\ a.name = b.name /\ a.port = b.port /\ a.protocol = b.protocol
  BY DEF SameSocket, SocketOf
<1>3. ShownKeys[a] = ShownKeys[b]
        <=> /\ a.pid = b.pid /\ a.name = b.name /\ a.port = b.port /\ a.protocol = b.protocol
  BY <1>1
<1>4. (\A i \in 1 .. 4 : ScanKeys[a][i] = ScanKeys[b][i])
        <=> /\ a.pid = b.pid /\ a.name = b.name /\ a.port = b.port /\ a.protocol = b.protocol
  <2> DEFINE x == ScanKeys[a]
             y == ScanKeys[b]
  <2>1. /\ x[1] = a.pid /\ x[2] = a.name /\ x[3] = a.port /\ x[4] = a.protocol
        /\ y[1] = b.pid /\ y[2] = b.name /\ y[3] = b.port /\ y[4] = b.protocol
    BY <1>1
  <2> HIDE DEF x, y
  <2>2. (\A i \in 1 .. 4 : x[i] = y[i]) <=> x[1] = y[1] /\ x[2] = y[2] /\ x[3] = y[3] /\ x[4] = y[4]
    <3>1. \A i \in 1 .. 4 : i = 1 \/ i = 2 \/ i = 3 \/ i = 4
      OBVIOUS
    <3>2. 1 \in 1 .. 4 /\ 2 \in 1 .. 4 /\ 3 \in 1 .. 4 /\ 4 \in 1 .. 4
      OBVIOUS
    <3> QED BY <3>1, <3>2, Zenon
  <2>3. (\A i \in 1 .. 4 : x[i] = y[i])
          <=> /\ a.pid = b.pid /\ a.name = b.name /\ a.port = b.port /\ a.protocol = b.protocol
    BY <2>1, <2>2
  <2> QED BY <2>3 DEF x, y
<1> QED BY <1>2, <1>3, <1>4

\* A tuple between two that begin the same begins like them.
LEMMA LexBetween ==
  ASSUME NEW n \in Nat, NEW m \in 0 .. n,
         NEW x \in Tuples(n), NEW y \in Tuples(n), NEW z \in Tuples(n),
         x = y \/ LexLess(x, y), y = z \/ LexLess(y, z), \A i \in 1 .. m : x[i] = z[i]
  PROVE  \A i \in 1 .. m : y[i] = z[i]
<1>1. \A i \in 1 .. n : x[i] \in Int /\ y[i] \in Int /\ z[i] \in Int
  BY DEF Tuples
<1>2. DOMAIN x = 1 .. n /\ DOMAIN y = 1 .. n /\ DOMAIN z = 1 .. n
  BY DEF Tuples
<1>3. CASE x = y \/ y = z
  BY <1>3
<1>4. CASE LexLess(x, y) /\ LexLess(y, z)
  <2>1. PICK i \in 1 .. n : x[i] < y[i] /\ \A j \in 1 .. i - 1 : x[j] = y[j]
    BY <1>2, <1>4 DEF LexLess
  <2>2. PICK k \in 1 .. n : y[k] < z[k] /\ \A j \in 1 .. k - 1 : y[j] = z[j]
    BY <1>2, <1>4 DEF LexLess
  <2>3. CASE m < k
    BY <2>2, <2>3
  <2>4. CASE k <= m /\ i < k
    <3>1. x[i] = z[i] /\ y[i] = z[i]
      BY <2>2, <2>4
    <3> QED BY <1>1, <2>1, <3>1
  <2>5. CASE k <= m /\ i = k
    <3>1. x[i] = z[i]
      BY <2>5
    <3> QED BY <1>1, <2>1, <2>2, <2>5, <3>1
  <2>6. CASE k <= m /\ k < i
    <3>1. x[k] = z[k] /\ x[k] = y[k]
      BY <2>1, <2>6
    <3> QED BY <1>1, <2>2, <3>1
  <2> QED BY <2>3, <2>4, <2>5, <2>6
<1> QED BY <1>3, <1>4

\* The first sort brings the entries of a socket together.
LEMMA ScanGrouped ==
  ASSUME NEW s \in Seq(SocketEntries)
  PROVE  Sorted(s, ScanOrder) \in Seq(SocketEntries) /\ Grouped(Sorted(s, ScanOrder))
<1> DEFINE t == Sorted(s, ScanOrder)
<1>1. PICK p : IsSortedBy(t, s, p, ScanKeys, LexOrder(5))
  BY ScanSorted
<1> HIDE DEF t
<1>2. t \in Seq(SocketEntries) /\ DOMAIN t = DOMAIN s
  BY <1>1, SortedElements
<1>3. \A i \in DOMAIN t : t[i] \in SocketEntries /\ ScanKeys[t[i]] \in Tuples(5)
  <2>1. \A i \in DOMAIN t : t[i] \in SocketEntries
    BY <1>2
  <2> QED BY <2>1, KeysTyped
<1>4. \A i, j \in DOMAIN t :
        i < j => \/ ScanKeys[t[i]] = ScanKeys[t[j]]
                 \/ LexLess(ScanKeys[t[i]], ScanKeys[t[j]])
  BY <1>1, <1>2, <1>3 DEF IsSortedBy, LessByKey, LexOrder
<1>5. ASSUME NEW i \in DOMAIN t, NEW j \in DOMAIN t, NEW k \in DOMAIN t, i < j, j < k,
             SameSocket(t[i], t[k])
      PROVE  SameSocket(t[j], t[k])
  <2>1. \A l \in 1 .. 4 : ScanKeys[t[i]][l] = ScanKeys[t[k]][l]
    BY <1>3, <1>5, SocketKeys
  <2> DEFINE x == ScanKeys[t[i]]
             y == ScanKeys[t[j]]
             z == ScanKeys[t[k]]
  <2>2. /\ x \in Tuples(5) /\ y \in Tuples(5) /\ z \in Tuples(5)
        /\ x = y \/ LexLess(x, y)
        /\ y = z \/ LexLess(y, z)
    BY <1>3, <1>4, <1>5
  <2>3. \A l \in 1 .. 4 : x[l] = z[l]
    BY <2>1
  <2> HIDE DEF x, y, z
  <2>4. 5 \in Nat /\ 4 \in 0 .. 5
    OBVIOUS
  <2>5. \A l \in 1 .. 4 : y[l] = z[l]
    BY <2>2, <2>3, <2>4, LexBetween
  <2> QED BY <1>3, <2>5, SocketKeys DEF y, z
<1>6. Grouped(t)
  BY <1>5 DEF Grouped
<1> QED BY <1>2, <1>6 DEF t

\* As the table shows them: one entry per socket, by port.
Shown(r) == /\ r \in Seq(SocketEntries)
            /\ StrictlySorted(r, ShownKeys, LexOrder(4))
            /\ DistinctSockets(r)

\* The second sort orders entries of distinct sockets and keeps them.
LEMMA ShownInOrder ==
  ASSUME NEW s \in Seq(SocketEntries), DistinctSockets(s)
  PROVE  Shown(Sorted(s, ShownOrder)) /\ ToSet(Sorted(s, ShownOrder)) = ToSet(s)
<1> DEFINE t == Sorted(s, ShownOrder)
<1>1. PICK p : IsSortedBy(t, s, p, ShownKeys, LexOrder(4))
  BY ShownSorted
<1> HIDE DEF t
<1>2. DistinctKeys(s, ShownKeys)
  <2> SUFFICES ASSUME NEW i \in DOMAIN s, NEW j \in DOMAIN s, ShownKeys[s[i]] = ShownKeys[s[j]]
               PROVE  i = j
    BY DEF DistinctKeys
  <2>1. s[i] \in SocketEntries /\ s[j] \in SocketEntries
    OBVIOUS
  <2>2. SameSocket(s[i], s[j])
    BY <2>1, SocketKeys
  <2> QED BY <2>2 DEF DistinctSockets, SameSocket
<1>3. t \in Seq(SocketEntries) /\ ToSet(t) = ToSet(s)
  BY <1>1, SortedElements
<1>4. DistinctKeys(t, ShownKeys) /\ StrictlySorted(t, ShownKeys, LexOrder(4))
  BY <1>1, <1>2, SortedDistinct
<1>5. DistinctSockets(t)
  <2> SUFFICES ASSUME NEW i \in DOMAIN t, NEW j \in DOMAIN t, SameSocket(t[i], t[j])
               PROVE  i = j
    BY DEF DistinctSockets, SameSocket
  <2>1. t[i] \in SocketEntries /\ t[j] \in SocketEntries
    BY <1>3
  <2>2. ShownKeys[t[i]] = ShownKeys[t[j]]
    BY <2>1, SocketKeys
  <2> QED BY <1>4, <2>2 DEF DistinctKeys
<1> QED BY <1>3, <1>4, <1>5 DEF Shown, t

\* A shown sequence is told by its elements.
LEMMA ShownUnique ==
  ASSUME NEW r, Shown(r), NEW s, Shown(s), ToSet(r) = ToSet(s)
  PROVE  r = s
<1>1. /\ ShownKeys \in [SocketEntries -> Tuples(4)] /\ StrictTotalOrder(Tuples(4), LexOrder(4))
      /\ r \in Seq(SocketEntries) /\ StrictlySorted(r, ShownKeys, LexOrder(4))
      /\ s \in Seq(SocketEntries) /\ StrictlySorted(s, ShownKeys, LexOrder(4))
  BY KeysTyped, LexTotal DEF Shown
<1> QED BY <1>1, SortedUnique

\* FinalizeSnapshot sorts entries of distinct sockets, and that is all.
LEMMA FinalizeDistinct ==
  ASSUME NEW s \in Seq(SocketEntries), DistinctSockets(s)
  PROVE  Shown(FinalizeSnapshot(s)) /\ ToSet(FinalizeSnapshot(s)) = ToSet(s)
<1> DEFINE t == Sorted(s, ScanOrder)
<1>1. PICK p : IsSortedBy(t, s, p, ScanKeys, LexOrder(5))
  BY ScanSorted
<1> HIDE DEF t
<1>2. t \in Seq(SocketEntries) /\ DOMAIN t = DOMAIN s /\ ToSet(t) = ToSet(s)
  BY <1>1, SortedElements
<1>3. DistinctSockets(t)
  <2> SUFFICES ASSUME NEW i \in DOMAIN s, NEW j \in DOMAIN s, SocketOf(t[i]) = SocketOf(t[j])
               PROVE  i = j
    BY <1>2 DEF DistinctSockets
  <2>1. /\ p[i] \in DOMAIN s /\ p[j] \in DOMAIN s
        /\ p[i] = p[j] => i = j
    BY <1>1 DEF IsSortedBy, Bijection, Injection, Surjection, IsInjective
  <2>2. t[i] = s[p[i]] /\ t[j] = s[p[j]]
    BY <1>1 DEF IsSortedBy
  <2> QED BY <2>1, <2>2 DEF DistinctSockets
<1>4. Compacted(t) = t
  BY <1>2, <1>3, CompactedDistinct
<1>5. Shown(Sorted(t, ShownOrder)) /\ ToSet(Sorted(t, ShownOrder)) = ToSet(t)
  BY <1>2, <1>3, ShownInOrder
<1> QED BY <1>2, <1>4, <1>5, Zenon DEF FinalizeSnapshot, t

\* A second pass changes nothing.
LEMMA FinalizeAgain ==
  ASSUME NEW r, Shown(r)
  PROVE  FinalizeSnapshot(r) = r
<1>1. r \in Seq(SocketEntries) /\ DistinctSockets(r)
  BY DEF Shown
<1>2. Shown(FinalizeSnapshot(r)) /\ ToSet(FinalizeSnapshot(r)) = ToSet(r)
  BY <1>1, FinalizeDistinct
<1> QED BY <1>2, ShownUnique

\* The first pass leaves one entry for every socket.
LEMMA FinalizeStandsFor ==
  ASSUME NEW s \in Seq(SocketEntries), Single(s)
  PROVE  Shown(FinalizeSnapshot(s)) /\ IsCompacted(FinalizeSnapshot(s), s, DOMAIN s)
<1> DEFINE t == Sorted(s, ScanOrder)
           c == Compacted(t)
           r == Sorted(c, ShownOrder)
<1>1. PICK p : IsSortedBy(t, s, p, ScanKeys, LexOrder(5))
  BY ScanSorted
<1>2. t \in Seq(SocketEntries) /\ Grouped(t)
  BY ScanGrouped
<1>3. FinalizeSnapshot(s) = r
  BY Zenon DEF FinalizeSnapshot
<1> HIDE DEF t
<1>4. DOMAIN t = DOMAIN s /\ p \in Bijection(DOMAIN s, DOMAIN s) /\ t = [k \in DOMAIN s |-> s[p[k]]]
  BY <1>1 DEF IsSortedBy
<1>5. /\ \A k \in DOMAIN s : p[k] \in DOMAIN s
      /\ \A i \in DOMAIN s : \E k \in DOMAIN s : p[k] = i
  BY <1>4 DEF Bijection, Injection, Surjection, IsInjective
<1>6. Single(t)
  BY <1>4, <1>5 DEF Single
<1>7. c \in Seq(SocketEntries) /\ IsCompacted(c, t, DOMAIN t)
  BY <1>2, <1>6, CompactedStandsFor
<1> HIDE DEF c
<1>8. Shown(r) /\ ToSet(r) = ToSet(c)
  BY <1>7, ShownInOrder DEF IsCompacted
<1> HIDE DEF r
<1>9. ASSUME NEW i \in DOMAIN s PROVE \E j \in DOMAIN r : SameSocket(r[j], s[i])
  <2>1. PICK k \in DOMAIN s : p[k] = i
    BY <1>5
  <2>2. PICK j \in DOMAIN c : SameSocket(c[j], t[k])
    BY <1>4, <1>7 DEF IsCompacted
  <2>3. PICK l \in DOMAIN r : r[l] = c[j]
    BY <1>8 DEF ToSet
  <2> QED BY <1>4, <2>1, <2>2, <2>3
<1>10. ASSUME NEW j \in DOMAIN r PROVE StandsFor(r[j], s, DOMAIN s)
  <2>1. PICK l \in DOMAIN c : r[j] = c[l]
    BY <1>8 DEF ToSet
  <2>2. StandsFor(r[j], t, DOMAIN t)
    BY <1>7, <2>1 DEF IsCompacted
  <2>3. IsRearranged(t, s, p)
    BY <1>4 DEF IsRearranged
  <2> QED BY <1>2, <2>2, <2>3, StandsForRearranged
<1>11. IsCompacted(r, s, DOMAIN s)
  BY <1>8, <1>9, <1>10 DEF IsCompacted, Shown
<1> QED BY <1>3, <1>8, <1>11

\* What FinalizeIsExact says of a snapshot made of some entries.
IsFinal(final, entries) ==
  LET same(e) == {i \in DOMAIN entries : SameSocket(entries[i], e)}
  IN  /\ {SocketOf(e) : e \in ToSet(final)} = {SocketOf(e) : e \in ToSet(entries)}
      /\ \A i, j \in DOMAIN final : i < j => ShownOrder(final[i], final[j])
      /\ \A e \in ToSet(final) :
           /\ e.fd_count = Cardinality(same(e))
           /\ StatePriority[e.state] = Max({StatePriority[entries[i].state] : i \in same(e)})
      /\ FinalizeSnapshot(final) = final

\* The largest number of a set is the one that no other exceeds.
LEMMA MaxIs ==
  ASSUME NEW S \in SUBSET Nat, NEW x \in S, \A y \in S : y <= x
  PROVE  Max(S) = x
<1>1. \A z \in S : z \in Nat
  OBVIOUS
<1>2. \A z \in S : (\A y \in S : z >= y) => z = x
  BY <1>1
<1>3. \A y \in S : x >= y
  BY <1>1
<1> QED BY <1>2, <1>3 DEF Max

LEMMA MinIs ==
  ASSUME NEW S \in SUBSET Nat, NEW x \in S, \A y \in S : x <= y
  PROVE  Min(S) = x
<1>1. \A z \in S : z \in Nat
  OBVIOUS
<1>2. \A z \in S : (\A y \in S : z <= y) => z = x
  BY <1>1
<1> QED BY <1>2 DEF Min

LEMMA PriorityType ==
  ASSUME NEW e \in SocketEntries
  PROVE  StatePriority[e.state] \in Nat
<1>1. e.state \in SocketStates
  BY DEF SocketEntries
<1> QED BY <1>1 DEF SocketStates, StatePriority

\* However many entries there are, in whatever order, FinalizeSnapshot leaves one
\* for every socket, with the number of its descriptors and the most telling of
\* its states, in the order of the table; and a second pass changes nothing.
THEOREM SnapshotFinal ==
  ASSUME NEW s \in Seq(SocketEntries), Single(s)
  PROVE  IsFinal(FinalizeSnapshot(s), s)
<1> DEFINE r == FinalizeSnapshot(s)
           same(e) == {i \in DOMAIN s : SameSocket(s[i], e)}
<1>1. Shown(r) /\ IsCompacted(r, s, DOMAIN s)
  BY FinalizeStandsFor
<1>2. FinalizeSnapshot(r) = r
  BY <1>1, FinalizeAgain
<1> HIDE DEF r
<1>3. r \in Seq(SocketEntries) /\ \A i \in DOMAIN r : r[i] \in SocketEntries
  BY <1>1 DEF Shown
<1>4. \A i, j \in DOMAIN r : i < j => ShownOrder(r[i], r[j])
  BY <1>1, <1>3, OrdersByKeys DEF Shown, StrictlySorted
<1>5. {SocketOf(e) : e \in ToSet(r)} = {SocketOf(e) : e \in ToSet(s)}
  <2>1. ASSUME NEW e \in ToSet(s) PROVE \E d \in ToSet(r) : SocketOf(d) = SocketOf(e)
    <3>1. PICK i \in DOMAIN s : e = s[i]
      BY DEF ToSet
    <3>2. PICK j \in DOMAIN r : SameSocket(r[j], s[i])
      BY <1>1 DEF IsCompacted
    <3> QED BY <3>1, <3>2 DEF ToSet, SameSocket
  <2>2. ASSUME NEW d \in ToSet(r) PROVE \E e \in ToSet(s) : SocketOf(d) = SocketOf(e)
    <3>1. PICK j \in DOMAIN r : d = r[j]
      BY DEF ToSet
    <3>2. PICK i \in SameIn(s, DOMAIN s, r[j]) : TRUE
      BY <1>1 DEF IsCompacted, StandsFor
    <3> QED BY <3>1, <3>2 DEF ToSet, SameSocket, SameIn
  <2> QED BY <2>1, <2>2
<1>6. ASSUME NEW e \in ToSet(r)
      PROVE  /\ e.fd_count = Cardinality(same(e))
             /\ StatePriority[e.state] = Max({StatePriority[s[i].state] : i \in same(e)})
  <2>1. PICK j \in DOMAIN r : e = r[j]
    BY DEF ToSet
  <2>2. same(e) = SameIn(s, DOMAIN s, e)
    BY DEF SameIn
  <2>3. StandsFor(e, s, DOMAIN s) /\ e \in SocketEntries
    BY <1>1, <1>3, <2>1 DEF IsCompacted
  <2> DEFINE T == {StatePriority[s[i].state] : i \in same(e)}
  <2>4. T \in SUBSET Nat
    <3>1. \A i \in same(e) : s[i] \in SocketEntries
      OBVIOUS
    <3> HIDE DEF same
    <3>2. \A i \in same(e) : StatePriority[s[i].state] \in Nat
      BY <3>1, PriorityType
    <3> QED BY <3>2
  <2> HIDE DEF same
  <2>5. StatePriority[e.state] \in T /\ \A y \in T : y <= StatePriority[e.state]
    BY <2>2, <2>3 DEF StandsFor
  <2>6. Max(T) = StatePriority[e.state]
    <3> HIDE DEF T
    <3> QED BY <2>4, <2>5, MaxIs
  <2>7. e.fd_count = Cardinality(same(e))
    BY <2>2, <2>3 DEF StandsFor
  <2> QED BY <2>6, <2>7
<1> QED BY <1>2, <1>4, <1>5, <1>6, Zenon DEF IsFinal, r

----------------------------------------------------------------------------
(* The entries of lsof *)

\* The socket of an entry without the name of its process.
PortOf(e) == <<e.pid, e.port, e.protocol>>

LEMMA HasSocketOf ==
  ASSUME NEW done, NEW c
  PROVE  HasSocket(done, c) <=> \E i \in DOMAIN done : PortOf(done[i]) = PortOf(c)
BY DEF HasSocket, PortOf

LEMMA AppendFallbackType ==
  ASSUME NEW done \in Seq(SocketEntries), NEW e \in SocketEntries
  PROVE  AppendFallbackEntry(done, e) \in Seq(SocketEntries)
BY DEF AppendFallbackEntry

\* The entries with those of lsof are the last of the states of that loop.
LEMMA AppendedStates ==
  ASSUME NEW base \in Seq(SocketEntries), NEW s \in Seq(SocketEntries)
  PROVE  \E f \in [0 .. Len(s) -> Seq(SocketEntries)] :
           /\ f[0] = base
           /\ \A k \in 1 .. Len(s) : f[k] = AppendFallbackEntry(f[k - 1], s[k])
           /\ AppendFallbackEntries(base, s) = f[Len(s)]
<1> DEFINE n == Len(s)
           A == Seq(SocketEntries)
           H == [x \in A \X (1 .. n) |-> AppendFallbackEntry(x[1], s[x[2]])]
           Rule(g) == g = [t \in SUBSET DOMAIN s |->
                             IF t = {} THEN base
                             ELSE AppendFallbackEntry(g[t \ {Max(t)}], s[Max(t)])]
           it == CHOOSE g : Rule(g)
<1>1. n \in Nat /\ DOMAIN s = 1 .. n /\ \A k \in 1 .. n : s[k] \in SocketEntries
  OBVIOUS
<1>2. base \in A
  OBVIOUS
<1>3. H \in [A \X (1 .. n) -> A]
  <2>1. \A d \in A, e \in SocketEntries : AppendFallbackEntry(d, e) \in A
    BY AppendFallbackType, Zenon
  <2> HIDE DEF A
  <2> QED BY <1>1, <2>1
<1> HIDE DEF A, n
<1>4. PICK g \in [SUBSET (1 .. n) -> A] : IsFold(g, base, n, H)
  <2> HIDE DEF H, Rule, it
  <2> QED BY <1>1, <1>2, <1>3, FoldExists
<1>5. \A t \in SUBSET (1 .. n) : t # {} => Max(t) \in 1 .. n
  BY <1>1, MaxOfSome
<1>6. Rule(g)
  <2>1. ASSUME NEW t \in SUBSET (1 .. n), t # {}
        PROVE  H[<<g[t \ {Max(t)}], Max(t)>>] = AppendFallbackEntry(g[t \ {Max(t)}], s[Max(t)])
    <3>1. g[t \ {Max(t)}] \in A /\ Max(t) \in 1 .. n
      BY <1>5, <2>1
    <3> QED BY <3>1
  <2>2. \A t \in SUBSET (1 .. n) : g[t] = IF t = {} THEN base
                                          ELSE H[<<g[t \ {Max(t)}], Max(t)>>]
    BY <1>4 DEF IsFold
  <2> HIDE DEF H
  <2> QED BY <1>1, <2>1, <2>2
<1>7. Rule(it)
  BY <1>6, Zenon
<1> HIDE DEF H
<1>8. \A k \in 1 .. n : /\ 1 .. k \in SUBSET (1 .. n) /\ 1 .. k # {}
                        /\ Max(1 .. k) = k /\ (1 .. k) \ {k} = 1 .. k - 1
  <2> SUFFICES ASSUME NEW k \in 1 .. n
               PROVE  /\ 1 .. k \in SUBSET (1 .. n) /\ 1 .. k # {}
                      /\ Max(1 .. k) = k /\ (1 .. k) \ {k} = 1 .. k - 1
    OBVIOUS
  <2>1. k \in Nat /\ k \in 1 .. k /\ 1 .. k \in SUBSET (1 .. n)
    BY <1>1
  <2>2. Max(1 .. k) \in 1 .. k /\ k <= Max(1 .. k)
    BY <2>1, MaxOfSome
  <2> QED BY <2>1, <2>2
<1> DEFINE f == [k \in 0 .. n |-> it[1 .. k]]
<1>9. f[0] = base
  <2>1. 1 .. 0 = {} /\ 0 \in 0 .. n /\ 1 .. 0 \in SUBSET DOMAIN s
    BY <1>1
  <2> QED BY <1>7, <2>1
<1>10. \A k \in 1 .. n : f[k] = AppendFallbackEntry(f[k - 1], s[k])
  <2> SUFFICES ASSUME NEW k \in 1 .. n PROVE f[k] = AppendFallbackEntry(f[k - 1], s[k])
    OBVIOUS
  <2>1. k \in 0 .. n /\ k - 1 \in 0 .. n
    BY <1>1
  <2>2. it[1 .. k] = AppendFallbackEntry(it[1 .. k - 1], s[k])
    <3> DEFINE t == 1 .. k
    <3>1. t \in SUBSET DOMAIN s /\ t # {} /\ Max(t) = k /\ t \ {Max(t)} = 1 .. k - 1
      BY <1>1, <1>8
    <3>2. it[t] = AppendFallbackEntry(it[t \ {Max(t)}], s[Max(t)])
      <4> HIDE DEF t, it
      <4> QED BY <1>7, <3>1
    <3> HIDE DEF it
    <3> QED BY <3>1, <3>2
  <2> HIDE DEF it
  <2> QED BY <2>1, <2>2
<1>11. AppendFallbackEntries(base, s) = f[n]
  <2>1. AppendFallbackEntries(base, s) = it[1 .. n]
    BY <1>1 DEF AppendFallbackEntries, FoldLeft, MapThenFoldSet
  <2> HIDE DEF it
  <2> QED BY <1>1, <2>1
<1> HIDE DEF f
<1>12. \A k \in 0 .. n : k \in {i \in 0 .. n : f[i] \in A}
  <2>1. 0 \in {i \in 0 .. n : f[i] \in A}
    BY <1>1, <1>2, <1>9
  <2>2. ASSUME NEW k \in 1 .. n, k - 1 \in {i \in 0 .. n : f[i] \in A}
        PROVE  k \in {i \in 0 .. n : f[i] \in A}
    <3>1. AppendFallbackEntry(f[k - 1], s[k]) \in A
      BY <1>1, <2>2, AppendFallbackType, Zenon DEF A
    <3> QED BY <1>1, <1>10, <3>1
  <2> QED BY <1>1, <2>1, <2>2, InductionUpTo
<1>13. f \in [0 .. n -> A]
  BY <1>12 DEF f
<1> QED BY <1>9, <1>10, <1>11, <1>13 DEF n, A

\* With the entries cached at I added to done, which began as first: nothing of
\* first is lost; what is not of first has a port of its own; every port is there.
IsAppended(done, first, cached, I) ==
  /\ DistinctSockets(done)
  /\ ToSet(first) \subseteq ToSet(done)
  /\ \A d \in ToSet(done) : d \in ToSet(first) \/ \E i \in I : d = cached[i]
  /\ \A d, e \in ToSet(done) :
       PortOf(d) = PortOf(e) => d = e \/ (d \in ToSet(first) /\ e \in ToSet(first))
  /\ \A i \in I : \E d \in ToSet(done) : PortOf(d) = PortOf(cached[i])

LEMMA AppendStep ==
  ASSUME NEW first, NEW cached \in Seq(SocketEntries), NEW k \in DOMAIN cached,
         NEW done \in Seq(SocketEntries), NEW I, IsAppended(done, first, cached, I)
  PROVE  IsAppended(AppendFallbackEntry(done, cached[k]), first, cached, I \cup {k})
<1> DEFINE c == cached[k]
           next == AppendFallbackEntry(done, c)
<1>1. c \in SocketEntries /\ DOMAIN done = 1 .. Len(done) /\ Len(done) \in Nat
  OBVIOUS
<1> HIDE DEF c
<1>2. CASE HasSocket(done, c)
  <2>1. next = done
    BY <1>2 DEF AppendFallbackEntry
  <2>2. \E d \in ToSet(done) : PortOf(d) = PortOf(c)
    BY <1>2, HasSocketOf DEF ToSet
  <2>3. \A i \in I \cup {k} : \E d \in ToSet(done) : PortOf(d) = PortOf(cached[i])
    BY <2>2 DEF IsAppended, c
  <2>4. IsAppended(done, first, cached, I \cup {k})
    BY <2>3 DEF IsAppended
  <2> QED BY <2>1, <2>4 DEF c
<1>3. CASE ~HasSocket(done, c)
  <2>1. next = Append(done, c)
    BY <1>3 DEF AppendFallbackEntry
  <2> HIDE DEF next
  <2>2. \A d \in ToSet(done) : PortOf(d) # PortOf(c)
    BY <1>3, HasSocketOf DEF ToSet
  <2>3. ToSet(next) = ToSet(done) \cup {c}
    BY <1>1, <2>1, AppendedElements
  <2>4. /\ DOMAIN next = 1 .. Len(done) + 1 /\ next[Len(done) + 1] = c
        /\ \A j \in 1 .. Len(done) : next[j] = done[j]
    BY <1>1, <2>1
  <2>5. DistinctSockets(next)
    <3> DEFINE m == Len(done)
    <3> HIDE DEF m
    <3>1. /\ DOMAIN next = 1 .. m + 1 /\ next[m + 1] = c /\ m \in Nat
          /\ \A j \in 1 .. m : next[j] = done[j] /\ done[j] \in ToSet(done)
      BY <1>1, <2>4 DEF m, ToSet
    <3>2. \A j \in 1 .. m : SocketOf(done[j]) # SocketOf(c)
      <4> SUFFICES ASSUME NEW j \in 1 .. m, SocketOf(done[j]) = SocketOf(c) PROVE FALSE
        OBVIOUS
      <4>1. PortOf(done[j]) = PortOf(c)
        BY DEF SocketOf, PortOf
      <4> QED BY <2>2, <3>1, <4>1
    <3> SUFFICES ASSUME NEW i \in 1 .. m + 1, NEW j \in 1 .. m + 1,
                        SocketOf(next[i]) = SocketOf(next[j])
                 PROVE  i = j
      BY <3>1 DEF DistinctSockets
    <3>3. \A l \in 1 .. m + 1 : l \in 1 .. m \/ l = m + 1
      BY <3>1
    <3>4. CASE i \in 1 .. m /\ j \in 1 .. m
      BY <1>1, <3>1, <3>4 DEF IsAppended, DistinctSockets, m
    <3>5. CASE i = m + 1 /\ j \in 1 .. m
      BY <3>1, <3>2, <3>5
    <3>6. CASE i \in 1 .. m /\ j = m + 1
      BY <3>1, <3>2, <3>6
    <3> QED BY <3>3, <3>4, <3>5, <3>6
  <2>6. ToSet(first) \subseteq ToSet(next)
    BY <2>3 DEF IsAppended
  <2>7. \A d \in ToSet(next) : d \in ToSet(first) \/ \E i \in I \cup {k} : d = cached[i]
    BY <2>3 DEF IsAppended, c
  <2>8. \A d, e \in ToSet(next) :
          PortOf(d) = PortOf(e) => d = e \/ (d \in ToSet(first) /\ e \in ToSet(first))
    BY <2>2, <2>3 DEF IsAppended
  <2>9. \A i \in I \cup {k} : \E d \in ToSet(next) : PortOf(d) = PortOf(cached[i])
    BY <2>3 DEF IsAppended, c
  <2>10. IsAppended(next, first, cached, I \cup {k})
    BY <2>5, <2>6, <2>7, <2>8, <2>9 DEF IsAppended
  <2> QED BY <2>10 DEF next, c
<1> QED BY <1>2, <1>3

LEMMA AppendedAll ==
  ASSUME NEW first \in Seq(SocketEntries), DistinctSockets(first), NEW cached \in Seq(SocketEntries)
  PROVE  /\ AppendFallbackEntries(first, cached) \in Seq(SocketEntries)
         /\ IsAppended(AppendFallbackEntries(first, cached), first, cached, DOMAIN cached)
<1> DEFINE n == Len(cached)
<1>1. n \in Nat /\ DOMAIN cached = 1 .. n
  OBVIOUS
<1>2. PICK f \in [0 .. n -> Seq(SocketEntries)] :
        /\ f[0] = first
        /\ \A k \in 1 .. n : f[k] = AppendFallbackEntry(f[k - 1], cached[k])
        /\ AppendFallbackEntries(first, cached) = f[n]
  BY AppendedStates
<1> HIDE DEF n
<1> DEFINE S == {k \in 0 .. n : IsAppended(f[k], first, cached, 1 .. k)}
<1>3. 0 \in S
  <2>1. 0 \in 0 .. n /\ 1 .. 0 = {} /\ f[0] = first
    BY <1>1, <1>2
  <2>2. IsAppended(first, first, cached, {})
    BY DEF IsAppended
  <2> QED BY <2>1, <2>2
<1>4. ASSUME NEW k \in 1 .. n, k - 1 \in S PROVE k \in S
  <2>1. /\ k \in 0 .. n /\ k - 1 \in 0 .. n /\ k \in DOMAIN cached
        /\ (1 .. k - 1) \cup {k} = 1 .. k
    BY <1>1
  <2>2. /\ f[k - 1] \in Seq(SocketEntries) /\ f[k] = AppendFallbackEntry(f[k - 1], cached[k])
        /\ IsAppended(f[k - 1], first, cached, 1 .. k - 1)
    BY <1>2, <1>4, <2>1
  <2>3. IsAppended(AppendFallbackEntry(f[k - 1], cached[k]), first, cached, (1 .. k - 1) \cup {k})
    BY <2>1, <2>2, AppendStep
  <2>4. IsAppended(f[k], first, cached, 1 .. k)
    BY <2>1, <2>2, <2>3
  <2> QED BY <2>1, <2>4
<1>5. \A k \in 0 .. n : k \in S
  <2> HIDE DEF S
  <2> QED BY <1>1, <1>3, <1>4, InductionUpTo
<1>6. n \in 0 .. n /\ f[n] \in Seq(SocketEntries) /\ IsAppended(f[n], first, cached, 1 .. n)
  <2>1. n \in 0 .. n
    BY <1>1
  <2> QED BY <1>2, <1>5, <2>1
<1> QED BY <1>1, <1>2, <1>6

\* The entries of s with the port of e.
AtPort(s, e) == Subsequence(s, {i \in DOMAIN s : PortOf(s[i]) = PortOf(e)})

\* What OneSourcePerSocket says of the snapshot made of what libproc showed and
\* of the entries of lsof.
IsOneSource(final, entries, cached) ==
  LET socket(e) == <<e.pid, e.port, e.protocol>>
      at(s, e)  == Subsequence(s, {i \in DOMAIN s : socket(s[i]) = socket(e)})
  IN  /\ \A e \in ToSet(entries) : at(final, e) = at(FinalizeSnapshot(entries), e)
      /\ \A c \in ToSet(cached) :
           at(entries, c) = <<>> =>
             Len(at(final, c)) = 1 /\ at(final, c)[1] \in ToSet(cached)
      /\ ToSet(final) \subseteq ToSet(FinalizeSnapshot(entries)) \cup ToSet(cached)

\* The entries at a port are in the order of the snapshot and told by their set.
LEMMA AtPortShown ==
  ASSUME NEW r, Shown(r), NEW e
  PROVE  /\ AtPort(r, e) \in Seq(SocketEntries)
         /\ StrictlySorted(AtPort(r, e), ShownKeys, LexOrder(4))
         /\ ToSet(AtPort(r, e)) = {f \in ToSet(r) : PortOf(f) = PortOf(e)}
<1> DEFINE P == {i \in DOMAIN r : PortOf(r[i]) = PortOf(e)}
           t == Subsequence(r, P)
<1>1. r \in Seq(SocketEntries) /\ StrictlySorted(r, ShownKeys, LexOrder(4)) /\ P \in SUBSET DOMAIN r
  BY DEF Shown
<1>2. \A i \in DOMAIN r : i \in P <=> PortOf(r[i]) = PortOf(e)
  OBVIOUS
<1>3. t = AtPort(r, e)
  BY DEF AtPort
<1> HIDE DEF P, t
<1>4. /\ t \in Seq(SocketEntries) /\ Len(t) = Cardinality(P) /\ Cardinality(P) \in Nat
      /\ {t[k] : k \in 1 .. Cardinality(P)} = {r[i] : i \in P}
  BY <1>1, SubsequenceType, ZenonT(40) DEF t
<1>5. DOMAIN t = 1 .. Cardinality(P)
  BY <1>4
<1>6. ToSet(t) = {r[i] : i \in P}
  BY <1>4, <1>5 DEF ToSet
<1>7. {r[i] : i \in P} = {f \in ToSet(r) : PortOf(f) = PortOf(e)}
  BY <1>1, <1>2 DEF ToSet
<1>8. StrictlySorted(t, ShownKeys, LexOrder(4))
  BY <1>1, SubsequenceSorted DEF t
<1> QED BY <1>3, <1>4, <1>6, <1>7, <1>8

\* Whatever lsof reported, the snapshot has the sockets of libproc as libproc had
\* them, and one entry of lsof at every other port that lsof knows.
THEOREM SourcesKept ==
  ASSUME NEW entries \in Seq(SocketEntries), Single(entries), NEW cached \in Seq(SocketEntries)
  PROVE  IsOneSource(ScanResult(entries, cached), entries, cached)
<1> DEFINE first == FinalizeSnapshot(entries)
           all   == AppendFallbackEntries(first, cached)
           final == FinalizeSnapshot(all)
<1>1. Shown(first) /\ IsCompacted(first, entries, DOMAIN entries)
  BY FinalizeStandsFor
<1>2. final = ScanResult(entries, cached)
  BY Zenon DEF ScanResult
<1> HIDE DEF first
<1>3. all \in Seq(SocketEntries) /\ IsAppended(all, first, cached, DOMAIN cached)
  BY <1>1, AppendedAll DEF Shown
<1> HIDE DEF all
<1>4. Shown(final) /\ ToSet(final) = ToSet(all)
  BY <1>3, FinalizeDistinct DEF IsAppended
<1> HIDE DEF final
<1>5. /\ ToSet(first) \subseteq ToSet(final)
      /\ ToSet(final) \subseteq ToSet(first) \cup ToSet(cached)
      /\ \A d, e \in ToSet(final) :
           PortOf(d) = PortOf(e) => d = e \/ (d \in ToSet(first) /\ e \in ToSet(first))
      /\ \A c \in ToSet(cached) : \E d \in ToSet(final) : PortOf(d) = PortOf(c)
  <2>1. \A i \in DOMAIN cached : cached[i] \in ToSet(cached)
    BY DEF ToSet
  <2>2. \A c \in ToSet(cached) : \E i \in DOMAIN cached : c = cached[i]
    BY DEF ToSet
  <2>3. ToSet(final) \subseteq ToSet(first) \cup ToSet(cached)
    BY <1>3, <1>4, <2>1 DEF IsAppended
  <2>4. \A c \in ToSet(cached) : \E d \in ToSet(final) : PortOf(d) = PortOf(c)
    BY <1>3, <1>4, <2>2 DEF IsAppended
  <2> QED BY <1>3, <1>4, <2>3, <2>4 DEF IsAppended
<1>6. \A e \in ToSet(entries) : \E d \in ToSet(first) : PortOf(d) = PortOf(e)
  <2> SUFFICES ASSUME NEW i \in DOMAIN entries
               PROVE  \E d \in ToSet(first) : PortOf(d) = PortOf(entries[i])
    BY DEF ToSet
  <2>1. PICK j \in DOMAIN first : SameSocket(first[j], entries[i])
    BY <1>1 DEF IsCompacted
  <2>2. PortOf(first[j]) = PortOf(entries[i])
    BY <2>1 DEF SameSocket, SocketOf, PortOf
  <2> QED BY <2>2 DEF ToSet
<1>7. \A d \in ToSet(first) : \E i \in DOMAIN entries : PortOf(entries[i]) = PortOf(d)
  <2> SUFFICES ASSUME NEW j \in DOMAIN first
               PROVE  \E i \in DOMAIN entries : PortOf(entries[i]) = PortOf(first[j])
    BY DEF ToSet
  <2>1. PICK i \in DOMAIN entries : SameSocket(entries[i], first[j])
    BY <1>1 DEF IsCompacted, StandsFor, SameIn
  <2>2. PortOf(entries[i]) = PortOf(first[j])
    BY <2>1 DEF SameSocket, SocketOf, PortOf
  <2> QED BY <2>2
<1>8. ASSUME NEW e \in ToSet(entries) PROVE AtPort(final, e) = AtPort(first, e)
  <2>1. PICK d \in ToSet(first) : PortOf(d) = PortOf(e)
    BY <1>6
  <2>2. {f \in ToSet(final) : PortOf(f) = PortOf(e)} = {f \in ToSet(first) : PortOf(f) = PortOf(e)}
    BY <1>5, <2>1
  <2>3. /\ AtPort(final, e) \in Seq(SocketEntries)
        /\ StrictlySorted(AtPort(final, e), ShownKeys, LexOrder(4))
        /\ AtPort(first, e) \in Seq(SocketEntries)
        /\ StrictlySorted(AtPort(first, e), ShownKeys, LexOrder(4))
        /\ ToSet(AtPort(final, e)) = ToSet(AtPort(first, e))
    <3>1. /\ AtPort(final, e) \in Seq(SocketEntries)
          /\ StrictlySorted(AtPort(final, e), ShownKeys, LexOrder(4))
          /\ ToSet(AtPort(final, e)) = {f \in ToSet(final) : PortOf(f) = PortOf(e)}
      BY <1>4, AtPortShown
    <3>2. /\ AtPort(first, e) \in Seq(SocketEntries)
          /\ StrictlySorted(AtPort(first, e), ShownKeys, LexOrder(4))
          /\ ToSet(AtPort(first, e)) = {f \in ToSet(first) : PortOf(f) = PortOf(e)}
      BY <1>1, AtPortShown
    <3> QED BY <2>2, <3>1, <3>2
  <2>4. ShownKeys \in [SocketEntries -> Tuples(4)] /\ StrictTotalOrder(Tuples(4), LexOrder(4))
    BY KeysTyped, LexTotal
  <2> QED BY <2>3, <2>4, SortedUnique
<1>9. ASSUME NEW c \in ToSet(cached), AtPort(entries, c) = <<>>
      PROVE  Len(AtPort(final, c)) = 1 /\ AtPort(final, c)[1] \in ToSet(cached)
  <2>1. \A i \in DOMAIN entries : PortOf(entries[i]) # PortOf(c)
    <3> DEFINE P == {i \in DOMAIN entries : PortOf(entries[i]) = PortOf(c)}
    <3>1. P \in SUBSET DOMAIN entries
      OBVIOUS
    <3>2. Len(Subsequence(entries, P)) = 0
      <4>1. Subsequence(entries, P) = <<>>
        BY <1>9, Zenon DEF AtPort
      <4> HIDE DEF P
      <4> QED BY <4>1
    <3>3. \A i \in DOMAIN entries : i \in P <=> PortOf(entries[i]) = PortOf(c)
      OBVIOUS
    <3> HIDE DEF P
    <3>4. Cardinality(P) = 0
      BY <3>1, <3>2, SubsequenceType
    <3>5. IsFiniteSet(P)
      <4>1. Len(entries) \in Nat /\ DOMAIN entries = 1 .. Len(entries)
        OBVIOUS
      <4>2. IsFiniteSet(1 .. Len(entries))
        BY <4>1, FS_Interval
      <4> QED BY <3>1, <4>1, <4>2, FS_Subset
    <3> QED BY <3>3, <3>4, <3>5, FS_EmptySet
  <2>2. \A d \in ToSet(first) : PortOf(d) # PortOf(c)
    BY <1>7, <2>1
  <2>3. PICK d \in ToSet(final) : PortOf(d) = PortOf(c)
    BY <1>5
  <2>4. d \in ToSet(cached)
    BY <1>5, <2>2, <2>3
  <2>5. \A f \in ToSet(final) : PortOf(f) = PortOf(c) => f = d
    BY <1>5, <2>2, <2>3
  <2>6. PICK k \in DOMAIN final : final[k] = d
    BY <2>3 DEF ToSet
  <2>7. {i \in DOMAIN final : PortOf(final[i]) = PortOf(c)} = {k}
    <3>1. \A i \in DOMAIN final : PortOf(final[i]) = PortOf(c) => final[i] = d
      BY <2>5 DEF ToSet
    <3>2. \A i \in DOMAIN final : final[i] = d => i = k
      BY <1>4, <2>6 DEF Shown, DistinctSockets
    <3> QED BY <2>3, <2>6, <3>1, <3>2
  <2>8. AtPort(final, c) = Subsequence(final, {k})
    BY <2>7, Zenon DEF AtPort
  <2>9. /\ Subsequence(final, {k}) \in Seq({final[i] : i \in {k}})
        /\ Len(Subsequence(final, {k})) = Cardinality({k})
    BY <1>4, SubsequenceType DEF Shown
  <2>10. Cardinality({k}) = 1
    BY FS_Singleton
  <2>11. {final[i] : i \in {k}} = {d}
    BY <2>6
  <2>12. Len(AtPort(final, c)) = 1 /\ AtPort(final, c)[1] = d
    <3> DEFINE t == Subsequence(final, {k})
    <3>1. t \in Seq({d}) /\ Len(t) = 1
      BY <2>9, <2>10, <2>11
    <3> HIDE DEF t
    <3>2. t[1] \in {d}
      BY <3>1
    <3>3. AtPort(final, c) = t
      BY <2>8 DEF t
    <3> QED BY <3>1, <3>2, <3>3
  <2> QED BY <2>4, <2>12
<1>10. ToSet(final) \subseteq ToSet(first) \cup ToSet(cached)
  BY <1>5
<1>11. IsOneSource(final, entries, cached)
  BY <1>8, <1>9, <1>10, Zenon DEF IsOneSource, AtPort, PortOf, first
<1> QED BY <1>2, <1>11

----------------------------------------------------------------------------
(* The two scanners *)

\* An entry is told by its socket and what it stands for.
LEMMA StandsForOne ==
  ASSUME NEW s \in Seq(SocketEntries), NEW d \in SocketEntries, NEW e \in SocketEntries,
         SameSocket(d, e), StandsFor(d, s, DOMAIN s), StandsFor(e, s, DOMAIN s)
  PROVE  d = e
<1>1. SameIn(s, DOMAIN s, d) = SameIn(s, DOMAIN s, e)
  BY DEF SameIn, SameSocket
<1>2. d.fd_count = e.fd_count
  BY <1>1 DEF StandsFor
<1>3. StatePriority[d.state] = StatePriority[e.state]
  <2>1. PICK i \in SameIn(s, DOMAIN s, d) : d.state = s[i].state
    BY DEF StandsFor
  <2>2. PICK j \in SameIn(s, DOMAIN s, d) : e.state = s[j].state
    BY <1>1 DEF StandsFor
  <2>3. StatePriority[d.state] <= StatePriority[e.state]
    BY <1>1, <2>1 DEF StandsFor
  <2>4. StatePriority[e.state] <= StatePriority[d.state]
    BY <2>2 DEF StandsFor
  <2>5. StatePriority[d.state] \in Nat /\ StatePriority[e.state] \in Nat
    BY PriorityType
  <2> QED BY <2>3, <2>4, <2>5
<1>4. d.state = e.state
  <2>1. d.state \in SocketStates /\ e.state \in SocketStates
    BY DEF SocketEntries
  <2> QED BY <1>3, <2>1 DEF SocketStates, StatePriority
<1>5. d.pid = e.pid /\ d.name = e.name /\ d.port = e.port /\ d.protocol = e.protocol
  BY DEF SameSocket, SocketOf
<1> QED BY <1>2, <1>4, <1>5 DEF SocketEntries

\* In whatever order the entries are read, the snapshot is the same.
THEOREM OrderDoesNotMatter ==
  ASSUME NEW s \in Seq(SocketEntries), Single(s), NEW t \in Seq(SocketEntries), Single(t),
         NEW p, IsRearranged(t, s, p)
  PROVE  FinalizeSnapshot(t) = FinalizeSnapshot(s)
<1> DEFINE q == FinalizeSnapshot(t)
           r == FinalizeSnapshot(s)
<1>1. Shown(q) /\ IsCompacted(q, t, DOMAIN t)
  BY FinalizeStandsFor
<1>2. Shown(r) /\ IsCompacted(r, s, DOMAIN s)
  BY FinalizeStandsFor
<1> HIDE DEF q, r
<1>3. /\ \A j \in DOMAIN q : q[j] \in SocketEntries
      /\ \A j \in DOMAIN r : r[j] \in SocketEntries
  BY <1>1, <1>2 DEF Shown
<1>4. \A j \in DOMAIN q : StandsFor(q[j], s, DOMAIN s)
  BY <1>1, StandsForRearranged DEF IsCompacted
<1>5. \A j \in DOMAIN r : StandsFor(r[j], s, DOMAIN s)
  BY <1>2 DEF IsCompacted
<1>6. ASSUME NEW j \in DOMAIN q PROVE q[j] \in ToSet(r)
  <2>1. PICK i \in DOMAIN s : SameSocket(s[i], q[j])
    BY <1>4 DEF StandsFor, SameIn
  <2>2. PICK l \in DOMAIN r : SameSocket(r[l], s[i])
    BY <1>2 DEF IsCompacted
  <2>3. q[j] = r[l]
    <3>1. SameSocket(q[j], r[l])
      BY <2>1, <2>2 DEF SameSocket
    <3> QED BY <1>3, <1>4, <1>5, <3>1, StandsForOne
  <2> QED BY <2>3 DEF ToSet
<1>7. ASSUME NEW l \in DOMAIN r PROVE r[l] \in ToSet(q)
  <2>1. PICK i \in DOMAIN s : SameSocket(s[i], r[l])
    BY <1>5 DEF StandsFor, SameIn
  <2>2. PICK k \in DOMAIN t : t[k] = s[i]
    BY DEF IsRearranged, Bijection, Surjection
  <2>3. PICK j \in DOMAIN q : SameSocket(q[j], t[k])
    BY <1>1 DEF IsCompacted
  <2>4. q[j] = r[l]
    <3>1. SameSocket(q[j], r[l])
      BY <2>1, <2>2, <2>3 DEF SameSocket
    <3> QED BY <1>3, <1>4, <1>5, <3>1, StandsForOne
  <2> QED BY <2>4 DEF ToSet
<1>8. ToSet(q) = ToSet(r)
  BY <1>6, <1>7 DEF ToSet
<1>9. q = r
  BY <1>1, <1>2, <1>8, ShownUnique
<1> QED BY <1>9 DEF q, r

\* Two sequences laid out of the same ones are rearrangements of each other.
LEMMA LayoutsRearranged ==
  ASSUME NEW seqs, NEW s, NEW t, NEW b, NEW c, IsLayout(b, seqs, s), IsLayout(c, seqs, t)
  PROVE  \E p : IsRearranged(t, s, p)
<1> DEFINE Meet(x, y) == \E i \in DOMAIN seqs : \E j \in DOMAIN seqs[i] : c[i][j] = x /\ b[i][j] = y
           p == [x \in DOMAIN t |-> CHOOSE y \in DOMAIN s : Meet(x, y)]
<1>1. \A x \in DOMAIN t : \E y \in DOMAIN s : Meet(x, y)
  BY DEF IsLayout
<1>2. \A y \in DOMAIN s : \E x \in DOMAIN t : Meet(x, y)
  BY DEF IsLayout
<1>3. ASSUME NEW x \in DOMAIN t, NEW y \in DOMAIN s, NEW z \in DOMAIN s, Meet(x, y), Meet(x, z)
      PROVE  y = z
  BY <1>3, SMTT(40) DEF IsLayout
<1>4. ASSUME NEW x \in DOMAIN t, NEW z \in DOMAIN t, NEW y \in DOMAIN s, Meet(x, y), Meet(z, y)
      PROVE  x = z
  BY <1>4, SMTT(40) DEF IsLayout
<1>5. ASSUME NEW x \in DOMAIN t, NEW y \in DOMAIN s, Meet(x, y) PROVE t[x] = s[y]
  BY <1>5 DEF IsLayout
<1> HIDE DEF Meet
<1>6. \A x \in DOMAIN t : p[x] \in DOMAIN s /\ Meet(x, p[x])
  BY <1>1
<1>7. p \in [DOMAIN t -> DOMAIN s]
  BY <1>6
<1> HIDE DEF p
<1>8. \A x, y \in DOMAIN t : p[x] = p[y] => x = y
  BY <1>4, <1>6
<1>9. \A y \in DOMAIN s : \E x \in DOMAIN t : p[x] = y
  BY <1>2, <1>3, <1>6
<1>10. \A x \in DOMAIN t : t[x] = s[p[x]]
  BY <1>5, <1>6
<1>11. IsRearranged(t, s, p)
  BY <1>7, <1>8, <1>9, <1>10 DEF IsRearranged, Bijection, Injection, Surjection, IsInjective
<1> QED BY <1>11

\* Every place is of exactly one worker.
LEMMA WorkerOfPlace ==
  ASSUME NEW n \in Nat \ {0}, NEW i \in Int
  PROVE  /\ \E w \in 1 .. n : i % n = w % n
         /\ \A v, w \in 1 .. n : v % n = w % n => v = w
<1>1. \A w \in 0 .. n - 1 : w % n = w
  OBVIOUS
<1>2. n % n = 0
  OBVIOUS
<1>3. i % n \in 0 .. n - 1
  OBVIOUS
<1>4. \E w \in 1 .. n : i % n = w % n
  <2>1. CASE i % n = 0
    <3>1. n \in 1 .. n /\ i % n = n % n
      BY <1>2, <2>1
    <3> QED BY <3>1
  <2>2. CASE i % n # 0
    <3> DEFINE r == i % n
    <3>1. r \in 1 .. n /\ r \in 0 .. n - 1
      BY <1>3, <2>2
    <3>2. i % n = r % n
      <4> HIDE DEF r
      <4>1. r % n = r
        BY <1>1, <3>1
      <4> QED BY <4>1 DEF r
    <3> HIDE DEF r
    <3> QED BY <3>1, <3>2
  <2> QED BY <2>1, <2>2
<1>5. \A w \in 1 .. n : (w = n /\ w % n = 0) \/ (w # n /\ w % n = w)
  <2> SUFFICES ASSUME NEW w \in 1 .. n PROVE (w = n /\ w % n = 0) \/ (w # n /\ w % n = w)
    OBVIOUS
  <2>1. CASE w = n
    BY <1>2, <2>1
  <2>2. CASE w # n
    <3>1. w \in 0 .. n - 1
      BY <2>2
    <3> QED BY <1>1, <2>2, <3>1
  <2> QED BY <2>1, <2>2
<1>6. ASSUME NEW v \in 1 .. n, NEW w \in 1 .. n, v % n = w % n PROVE v = w
  <2>1. /\ (v = n /\ v % n = 0) \/ (v # n /\ v % n = v)
        /\ (w = n /\ w % n = 0) \/ (w # n /\ w % n = w)
    BY <1>5
  <2> DEFINE a == v % n
             b == w % n
  <2>2. a = b
    BY <1>6
  <2>3. /\ (v = n /\ a = 0) \/ (v # n /\ a = v)
        /\ (w = n /\ b = 0) \/ (w # n /\ b = w)
    BY <2>1
  <2> HIDE DEF a, b
  <2> QED BY <2>2, <2>3
<1> QED BY <1>4, <1>6

\* What is read of the processes in pids, one after the other.
Reads(pids, read) == [i \in DOMAIN pids |-> read[pids[i]]]

LEMMA SerialLayout ==
  ASSUME NEW P, NEW pids \in Seq(P), NEW V, NEW read \in [P -> Seq(V)]
  PROVE  /\ SerialEntries(pids, read) \in Seq(V)
         /\ \E b : IsLayout(b, Reads(pids, read), SerialEntries(pids, read))
<1>1. Reads(pids, read) \in Seq(Seq(V))
  <2>1. Len(pids) \in Nat /\ DOMAIN pids = 1 .. Len(pids) /\ \A i \in DOMAIN pids : pids[i] \in P
    OBVIOUS
  <2>2. Reads(pids, read) \in [1 .. Len(pids) -> Seq(V)]
    BY <2>1 DEF Reads
  <2> DEFINE m == Len(pids)
             S == Seq(V)
             t == Reads(pids, read)
  <2>3. m \in Nat /\ t \in [1 .. m -> S]
    BY <2>1, <2>2
  <2> HIDE DEF m, S, t
  <2>4. t \in Seq(S)
    BY <2>3
  <2> QED BY <2>4 DEF S, t
<1>2. SerialEntries(pids, read) = FlattenSeq(Reads(pids, read))
  BY Zenon DEF SerialEntries, Reads
<1> QED BY <1>1, <1>2, FlattenLayout

\* The buffers of the workers hold what a serial scan reads, each cell once.
LEMMA ParallelLayout ==
  ASSUME NEW P, NEW pids \in Seq(P), NEW V, NEW read \in [P -> Seq(V)], NEW n \in Nat \ {0},
         NEW flat, flat = FlattenSeq([w \in 1 .. n |-> WorkerEntries(pids, read, w, n)])
  PROVE  flat \in Seq(V) /\ \E b : IsLayout(b, Reads(pids, read), flat)
<1> DEFINE places == [w \in 1 .. n |-> StridePlaces(pids, w, n)]
           own == [w \in 1 .. n |-> Subsequence(pids, places[w])]
           rank == [w \in 1 .. n |-> Ascending(places[w])]
           buffer == [w \in 1 .. n |-> WorkerEntries(pids, read, w, n)]
           cells == [w \in 1 .. n |-> Reads(own[w], read)]
           seqs == Reads(pids, read)
           D == DOMAIN pids
<1>1. Len(pids) \in Nat /\ D = 1 .. Len(pids) /\ \A i \in D : pids[i] \in P
  OBVIOUS
<1>2. ASSUME NEW w \in 1 .. n
      PROVE  /\ places[w] \subseteq D
             /\ own[w] \in Seq(P) /\ DOMAIN own[w] = DOMAIN rank[w]
             /\ \A k \in DOMAIN rank[w] : rank[w][k] \in places[w] /\ own[w][k] = pids[rank[w][k]]
             /\ \A i \in places[w] : \E k \in DOMAIN rank[w] : rank[w][k] = i
             /\ \A k, l \in DOMAIN rank[w] : rank[w][k] = rank[w][l] => k = l
  <2> DEFINE S == places[w]
             a == Ascending(S)
             t == Subsequence(pids, S)
  <2>1. S \in SUBSET D
    BY DEF StridePlaces
  <2>2. rank[w] = a /\ own[w] = t
    OBVIOUS
  <2> HIDE DEF S, D
  <2>3. IsFiniteSet(S) /\ S \subseteq Int
    <3>1. IsFiniteSet(1 .. Len(pids))
      BY <1>1, FS_Interval
    <3>2. 1 .. Len(pids) \subseteq Int
      OBVIOUS
    <3> QED BY <1>1, <2>1, <3>1, <3>2, FS_Subset
  <2>4. a \in Bijection(1 .. Cardinality(S), S) /\ Cardinality(S) \in Nat
    BY <2>3, AscendingOrder
  <2>5. t = [k \in 1 .. Cardinality(S) |-> pids[a[k]]]
    BY DEF Subsequence
  <2>6. t \in Seq(P)
    BY <2>1, SubsequenceType DEF D
  <2> HIDE DEF a, t
  <2>7. /\ DOMAIN a = 1 .. Cardinality(S) /\ \A k \in DOMAIN a : a[k] \in S
        /\ \A i \in S : \E k \in DOMAIN a : a[k] = i
        /\ \A k, l \in DOMAIN a : a[k] = a[l] => k = l
    BY <2>4 DEF Bijection, Injection, Surjection, IsInjective
  <2>8. DOMAIN t = DOMAIN a /\ \A k \in DOMAIN a : t[k] = pids[a[k]]
    BY <2>5, <2>7
  <2> QED BY <2>1, <2>2, <2>6, <2>7, <2>8 DEF S
<1>3. ASSUME NEW w \in 1 .. n
      PROVE  /\ buffer[w] \in Seq(V)
             /\ \E b : IsLayout(b, cells[w], buffer[w])
  <2>1. buffer[w] = SerialEntries(own[w], read)
    BY Zenon DEF WorkerEntries
  <2>2. own[w] \in Seq(P)
    BY <1>2
  <2> HIDE DEF own, buffer
  <2>3. /\ SerialEntries(own[w], read) \in Seq(V)
        /\ \E b : IsLayout(b, Reads(own[w], read), SerialEntries(own[w], read))
    BY <2>2, SerialLayout
  <2> QED BY <2>1, <2>3
<1>4. \A i \in D : \E w \in 1 .. n : i \in places[w]
  <2> SUFFICES ASSUME NEW i \in D PROVE \E w \in 1 .. n : i \in places[w]
    OBVIOUS
  <2>1. i \in Int
    BY <1>1
  <2>2. PICK w \in 1 .. n : i % n = w % n
    BY <2>1, WorkerOfPlace
  <2>3. i \in StridePlaces(pids, w, n)
    BY <2>2 DEF StridePlaces
  <2> QED BY <2>3
<1>5. ASSUME NEW v \in 1 .. n, NEW w \in 1 .. n, NEW i \in places[v], i \in places[w] PROVE v = w
  <2>1. v % n = w % n
    <3>1. i \in StridePlaces(pids, v, n) /\ i \in StridePlaces(pids, w, n)
      BY <1>5
    <3> HIDE DEF places
    <3>2. i % n = v % n /\ i % n = w % n
      BY <3>1, Zenon DEF StridePlaces
    <3> QED BY <3>2, Zenon
  <2>2. 1 \in Int
    OBVIOUS
  <2> HIDE DEF places
  <2> QED BY <2>1, <2>2, WorkerOfPlace
<1>6. \A w \in 1 .. n : \A k \in DOMAIN own[w] : cells[w][k] = seqs[rank[w][k]]
  <2> SUFFICES ASSUME NEW w \in 1 .. n, NEW k \in DOMAIN own[w]
               PROVE  cells[w][k] = seqs[rank[w][k]]
    OBVIOUS
  <2>1. own[w][k] = pids[rank[w][k]] /\ rank[w][k] \in D
    BY <1>2
  <2>2. cells[w] = [l \in DOMAIN own[w] |-> read[own[w][l]]]
    BY Zenon DEF Reads
  <2>3. seqs = [i \in D |-> read[pids[i]]]
    BY Zenon DEF Reads
  <2> HIDE DEF cells, seqs, own, rank, D
  <2> QED BY <2>1, <2>2, <2>3
<1>7. /\ \A w \in 1 .. n : DOMAIN cells[w] = DOMAIN rank[w]
      /\ DOMAIN seqs = D
  <2>1. \A w \in 1 .. n : DOMAIN cells[w] = DOMAIN own[w]
    BY DEF Reads
  <2>2. DOMAIN seqs = D
    BY DEF Reads
  <2> HIDE DEF cells, seqs, own, rank, D
  <2> QED BY <1>2, <2>1, <2>2
<1>8. flat = FlattenSeq(buffer)
  OBVIOUS
<1>9. buffer \in [1 .. n -> Seq(V)]
  BY <1>3
<1> DEFINE lay == [w \in 1 .. n |-> CHOOSE b : IsLayout(b, cells[w], buffer[w])]
           worker == [i \in D |-> CHOOSE w \in 1 .. n : i \in places[w]]
           at == [i \in D |-> CHOOSE k \in DOMAIN rank[worker[i]] : rank[worker[i]][k] = i]
<1> HIDE DEF places, own, rank, buffer, cells, seqs, D
<1>10. \A w \in 1 .. n : IsLayout(lay[w], cells[w], buffer[w])
  BY <1>3
<1>11. \A i \in D : worker[i] \in 1 .. n /\ i \in places[worker[i]]
  BY <1>4
<1>12. \A i \in D : at[i] \in DOMAIN rank[worker[i]] /\ rank[worker[i]][at[i]] = i
  <2> HIDE DEF worker
  <2> SUFFICES ASSUME NEW i \in D PROVE at[i] \in DOMAIN rank[worker[i]] /\ rank[worker[i]][at[i]] = i
    OBVIOUS
  <2>1. \E k \in DOMAIN rank[worker[i]] : rank[worker[i]][k] = i
    BY <1>2, <1>11, SMTT(40)
  <2> QED BY <2>1
<1> HIDE DEF lay, worker, at
<1>13. \A w \in 1 .. n : \A k \in DOMAIN rank[w] :
         rank[w][k] \in D /\ worker[rank[w][k]] = w /\ at[rank[w][k]] = k
  <2> SUFFICES ASSUME NEW w \in 1 .. n, NEW k \in DOMAIN rank[w]
               PROVE  rank[w][k] \in D /\ worker[rank[w][k]] = w /\ at[rank[w][k]] = k
    OBVIOUS
  <2> DEFINE i == rank[w][k]
  <2>1. i \in D /\ i \in places[w]
    BY <1>2
  <2> HIDE DEF i
  <2>2. worker[i] \in 1 .. n /\ i \in places[worker[i]]
    BY <1>11, <2>1
  <2>3. worker[i] = w
    BY <1>5, <2>1, <2>2
  <2>4. at[i] \in DOMAIN rank[w] /\ rank[w][at[i]] = i
    BY <1>12, <2>1, <2>3
  <2>5. at[i] = k
    BY <1>2, <2>4 DEF i
  <2> QED BY <2>1, <2>3, <2>5 DEF i
<1>14. flat \in Seq(V) /\ \E g : IsLayout(g, buffer, flat)
  <2> DEFINE S == Seq(V)
  <2>1. buffer \in Seq(S)
    <3> HIDE DEF S
    <3> QED BY <1>9 DEF S
  <2> QED BY <1>8, <2>1, FlattenLayout
<1>15. PICK g : IsLayout(g, buffer, flat)
  BY <1>14
<1> DEFINE h == [i \in D |-> [j \in DOMAIN seqs[i] |-> g[worker[i]][lay[worker[i]][at[i]][j]]]]
<1>16. \A i \in D : cells[worker[i]][at[i]] = seqs[i] /\ at[i] \in DOMAIN cells[worker[i]]
  <2> SUFFICES ASSUME NEW i \in D
               PROVE  cells[worker[i]][at[i]] = seqs[i] /\ at[i] \in DOMAIN cells[worker[i]]
    OBVIOUS
  <2> DEFINE w == worker[i]
             k == at[i]
  <2>1. w \in 1 .. n /\ k \in DOMAIN rank[w] /\ rank[w][k] = i
    BY <1>11, <1>12
  <2> HIDE DEF w, k
  <2>2. k \in DOMAIN own[w] /\ k \in DOMAIN cells[w]
    BY <1>2, <1>7, <2>1
  <2>3. cells[w][k] = seqs[i]
    BY <1>6, <2>1, <2>2
  <2> QED BY <2>2, <2>3 DEF w, k
<1>17. /\ \A w \in 1 .. n : \A m \in DOMAIN buffer[w] :
            g[w][m] \in DOMAIN flat /\ flat[g[w][m]] = buffer[w][m]
       /\ \A v, w \in 1 .. n : \A m \in DOMAIN buffer[v], q \in DOMAIN buffer[w] :
            g[v][m] = g[w][q] => v = w /\ m = q
       /\ \A x \in DOMAIN flat : \E w \in 1 .. n : \E m \in DOMAIN buffer[w] : g[w][m] = x
  <2>1. DOMAIN buffer = 1 .. n
    BY <1>9
  <2>2. \A w \in DOMAIN buffer : \A m \in DOMAIN buffer[w] :
          g[w][m] \in DOMAIN flat /\ flat[g[w][m]] = buffer[w][m]
    BY <1>15, Zenon DEF IsLayout
  <2>3. \A v, w \in DOMAIN buffer : \A m \in DOMAIN buffer[v], q \in DOMAIN buffer[w] :
          g[v][m] = g[w][q] => v = w /\ m = q
    BY <1>15, Zenon DEF IsLayout
  <2>4. \A x \in DOMAIN flat : \E w \in DOMAIN buffer : \E m \in DOMAIN buffer[w] : g[w][m] = x
    BY <1>15, Zenon DEF IsLayout
  <2> QED BY <2>1, <2>2, <2>3, <2>4, ZenonT(40)
<1>18. ASSUME NEW i \in D, NEW j \in DOMAIN seqs[i]
       PROVE  /\ lay[worker[i]][at[i]][j] \in DOMAIN buffer[worker[i]]
              /\ buffer[worker[i]][lay[worker[i]][at[i]][j]] = seqs[i][j]
  <2> DEFINE w == worker[i]
             k == at[i]
  <2>1. w \in 1 .. n /\ k \in DOMAIN cells[w] /\ cells[w][k] = seqs[i]
    BY <1>11, <1>16
  <2> HIDE DEF w, k
  <2>2. lay[w][k][j] \in DOMAIN buffer[w] /\ buffer[w][lay[w][k][j]] = cells[w][k][j]
    BY <1>10, <2>1 DEF IsLayout
  <2> QED BY <2>1, <2>2 DEF w, k
<1>19. ASSUME NEW i \in D, NEW j \in DOMAIN seqs[i]
       PROVE  h[i][j] \in DOMAIN flat /\ flat[h[i][j]] = seqs[i][j]
  <2> DEFINE w == worker[i]
             m == lay[worker[i]][at[i]][j]
  <2>1. w \in 1 .. n /\ m \in DOMAIN buffer[w] /\ buffer[w][m] = seqs[i][j] /\ h[i][j] = g[w][m]
    BY <1>11, <1>18
  <2>2. \A u \in 1 .. n : \A q \in DOMAIN buffer[u] :
          g[u][q] \in DOMAIN flat /\ flat[g[u][q]] = buffer[u][q]
    BY <1>17
  <2> HIDE DEF w, m, h
  <2>3. w \in 1 .. n
    BY <2>1
  <2>4. m \in DOMAIN buffer[w]
    BY <2>1
  <2>5. g[w][m] \in DOMAIN flat /\ flat[g[w][m]] = buffer[w][m]
    BY <2>2, <2>3, <2>4
  <2> QED BY <2>1, <2>5
<1>20. ASSUME NEW x \in DOMAIN flat PROVE \E i \in D : \E j \in DOMAIN seqs[i] : h[i][j] = x
  <2>1. PICK w \in 1 .. n : \E m \in DOMAIN buffer[w] : g[w][m] = x
    BY <1>17
  <2>2. PICK m \in DOMAIN buffer[w] : g[w][m] = x
    BY <2>1
  <2>3. PICK k \in DOMAIN cells[w] : \E j \in DOMAIN cells[w][k] : lay[w][k][j] = m
    BY <1>10 DEF IsLayout
  <2>4. PICK j \in DOMAIN cells[w][k] : lay[w][k][j] = m
    BY <2>3
  <2> DEFINE i == rank[w][k]
  <2>5. i \in D /\ worker[i] = w /\ at[i] = k
    BY <1>7, <1>13
  <2> HIDE DEF i
  <2>6. j \in DOMAIN seqs[i]
    BY <1>16, <2>4, <2>5
  <2>7. h[i][j] = g[w][lay[w][k][j]]
    BY <2>5, <2>6
  <2> HIDE DEF h
  <2> QED BY <2>2, <2>4, <2>5, <2>6, <2>7
<1>21. ASSUME NEW i \in D, NEW k \in D, NEW j \in DOMAIN seqs[i], NEW l \in DOMAIN seqs[k],
              h[i][j] = h[k][l]
       PROVE  i = k /\ j = l
  <2> DEFINE v == worker[i]
             w == worker[k]
             m == lay[worker[i]][at[i]][j]
             q == lay[worker[k]][at[k]][l]
  <2>1. /\ v \in 1 .. n /\ m \in DOMAIN buffer[v] /\ h[i][j] = g[v][m]
        /\ w \in 1 .. n /\ q \in DOMAIN buffer[w] /\ h[k][l] = g[w][q]
    BY <1>11, <1>18
  <2>2. v = w /\ m = q
    <3> HIDE DEF v, w, m, q, h
    <3>1. g[v][m] = g[w][q]
      BY <1>21, <2>1
    <3> DEFINE Apart(u, x, y, z) == g[u][y] = g[x][z] => u = x /\ y = z
    <3>2. \A u, x \in 1 .. n : \A y \in DOMAIN buffer[u], z \in DOMAIN buffer[x] : Apart(u, x, y, z)
      BY <1>17, Zenon
    <3> HIDE DEF buffer, Apart
    <3>3. Apart(v, w, m, q)
      BY <2>1, <3>2
    <3> QED BY <3>1, <3>3 DEF Apart
  <2>3. lay[v][at[i]][j] = lay[v][at[k]][l]
    BY <2>2
  <2>4. /\ at[i] \in DOMAIN cells[v] /\ cells[v][at[i]] = seqs[i]
        /\ at[k] \in DOMAIN cells[v] /\ cells[v][at[k]] = seqs[k]
    BY <1>16, <2>2
  <2>5. rank[v][at[i]] = i /\ rank[v][at[k]] = k
    BY <1>12, <2>2
  <2> HIDE DEF v, w, m, q, h
  <2>6. at[i] = at[k] /\ j = l
    BY <1>10, <2>1, <2>3, <2>4 DEF IsLayout
  <2> QED BY <2>5, <2>6
<1> HIDE DEF h
<1>22. IsLayout(h, seqs, flat)
  BY <1>7, <1>19, <1>20, <1>21, Zenon DEF IsLayout
<1> QED BY <1>14, <1>22 DEF seqs

\* A pool has an active worker.
LEMMA SomeActive ==
  ASSUME NEW a \in Nat \ {0}, NEW b \in Nat \ {0}
  PROVE  Min({a, b}) \in Nat \ {0}
BY DEF Min

\* The entries of a parallel scan are those of a serial one, rearranged.
LEMMA ScansRearranged ==
  ASSUME NEW P, NEW pids \in Seq(P), pids # <<>>, NEW V, NEW read \in [P -> Seq(V)],
         NEW workers \in Nat \ {0}
  PROVE  /\ SerialEntries(pids, read) \in Seq(V)
         /\ ParallelEntries(pids, read, workers) \in Seq(V)
         /\ \E p : IsRearranged(ParallelEntries(pids, read, workers), SerialEntries(pids, read), p)
<1> DEFINE active == Min({workers, Len(pids)})
           serial == SerialEntries(pids, read)
           flat == FlattenSeq([w \in 1 .. active |-> WorkerEntries(pids, read, w, active)])
<1>1. active \in Nat \ {0}
  <2> DEFINE l == Len(pids)
  <2>1. l \in Nat \ {0}
    OBVIOUS
  <2> HIDE DEF l
  <2>2. Min({workers, l}) \in Nat \ {0}
    BY <2>1, SomeActive, Zenon
  <2> QED BY <2>2 DEF l
<1>2. flat = ParallelEntries(pids, read, workers)
  BY Zenon DEF ParallelEntries
<1>3. flat \in Seq(V) /\ \E b : IsLayout(b, Reads(pids, read), flat)
  <2> HIDE DEF active
  <2> QED BY <1>1, ParallelLayout
<1>4. serial \in Seq(V) /\ \E b : IsLayout(b, Reads(pids, read), serial)
  BY SerialLayout
<1> HIDE DEF flat, serial
<1>5. \E p : IsRearranged(flat, serial, p)
  <2>1. PICK b : IsLayout(b, Reads(pids, read), serial)
    BY <1>4
  <2>2. PICK c : IsLayout(c, Reads(pids, read), flat)
    BY <1>3
  <2> QED BY <2>1, <2>2, LayoutsRearranged
<1> QED BY <1>2, <1>3, <1>4, <1>5 DEF serial

\* For any number of processes and workers, and whatever is read from a process,
\* both scanners return the same snapshot.
THEOREM ScansAgree ==
  ASSUME NEW P, NEW pids \in Seq(P), pids # <<>>, NEW workers \in Nat \ {0},
         NEW read \in [P -> Seq({e \in SocketEntries : e.fd_count = 1})], NEW cached
  PROVE  ScanResult(ParallelEntries(pids, read, workers), cached)
           = ScanResult(SerialEntries(pids, read), cached)
<1> DEFINE V == {e \in SocketEntries : e.fd_count = 1}
           s == SerialEntries(pids, read)
           t == ParallelEntries(pids, read, workers)
<1>1. s \in Seq(V) /\ t \in Seq(V) /\ \E p : IsRearranged(t, s, p)
  <2> HIDE DEF V
  <2>1. read \in [P -> Seq(V)]
    BY DEF V
  <2> QED BY <2>1, ScansRearranged
<1> HIDE DEF s, t
<1>2. s \in Seq(SocketEntries) /\ Single(s) /\ t \in Seq(SocketEntries) /\ Single(t)
  BY <1>1 DEF Single
<1>3. FinalizeSnapshot(t) = FinalizeSnapshot(s)
  BY <1>1, <1>2, OrderDoesNotMatter
<1> QED BY <1>3, Zenon DEF ScanResult, s, t
=============================================================================
