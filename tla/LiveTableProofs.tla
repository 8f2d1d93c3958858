-------------------------- MODULE LiveTableProofs --------------------------
(***************************************************************************)
(* For any snapshots, names and keys: the groups shown are the latest      *)
(* snapshot taken, sorted and filtered; the focused row exists; marks do   *)
(* not outlive the sockets of their process.                               *)
(***************************************************************************)
EXTENDS LiveTable, SequenceLemmas

\* The inductive invariant.  That the groups are current tells which pids
\* they hold, so that what is marked or expanded from them is listed.
IInv ==
  /\ unseen \in {<<>>} \cup {<<s>> : s \in Snapshots}
  /\ entries \in Snapshots \cup {<<>>}
  /\ selected_row \in Nat
  /\ GroupsAreCurrent
  /\ FocusInRange
  /\ MarksAreListed

\* The tables there may be: a snapshot or, before the first, none.
Tables == Snapshots \cup {<<>>}

LEMMA TableFinite ==
  ASSUME NEW s \in Tables
  PROVE  /\ IsFiniteSet(DOMAIN s) /\ DOMAIN s \subseteq Pids
         /\ \A p \in DOMAIN s : s[p] \in ProcessData
<1>1. CASE s = <<>>
  BY <1>1, FS_EmptySet
<1>2. CASE s \in Snapshots
  BY <1>2, TableAssumption
<1> QED BY <1>1, <1>2 DEF Tables

\* No process precedes itself.
LEMMA PrecedesIrreflexive ==
  ASSUME NEW s \in Tables, NEW mode, NEW p \in DOMAIN s
  PROVE  ~Precedes(s, mode, p, p)
<1>1. s[p].name \in Nat /\ p \in Nat
  <2>1. Names \in Seq(Seq(STRING)) /\ DOMAIN Names = 1 .. Len(Names) /\ Len(Names) \in Nat
    BY TableAssumption
  <2>2. s[p].name \in DOMAIN Names
    BY TableFinite DEF ProcessData
  <2>3. s[p].name \in 1 .. Len(Names)
    BY <2>1, <2>2, Zenon
  <2>4. p \in Pids
    BY TableFinite
  <2> QED BY <2>1, <2>3, <2>4, PidsAssumption
<1> QED BY <1>1 DEF Precedes

\* Sorted groups are a sequence of the pids that were sorted, all of them.
LEMMA SortedGroups ==
  ASSUME NEW s \in Tables, NEW mode, NEW pids \in SUBSET DOMAIN s,
         NEW g \in SortGroups(s, mode, pids)
  PROVE  /\ g \in Seq(pids) /\ Len(g) = Cardinality(pids) /\ Len(g) \in Nat
         /\ DOMAIN g = 1 .. Len(g)
         /\ Range(g) = pids
<1>1. IsFiniteSet(pids) /\ Cardinality(pids) \in Nat
  BY TableFinite, FS_Subset, FS_CardinalityType
<1> DEFINE n == Cardinality(pids)
<1>2. g \in [1 .. n -> pids] /\ \A i, j \in 1 .. n : i < j => Precedes(s, mode, g[i], g[j])
  BY DEF SortGroups
<1>3. g \in Seq(pids) /\ Len(g) = n /\ DOMAIN g = 1 .. n
  BY <1>1, <1>2
<1>4. \A i, j \in 1 .. n : g[i] = g[j] => i = j
  <2> SUFFICES ASSUME NEW i \in 1 .. n, NEW j \in 1 .. n, g[i] = g[j], i # j PROVE FALSE
    OBVIOUS
  <2>1. g[i] \in DOMAIN s
    BY <1>2
  <2>2. i < j \/ j < i
    BY <1>1
  <2> QED BY <1>2, <2>1, <2>2, PrecedesIrreflexive
<1>5. Range(g) \subseteq pids /\ Range(g) = {g[i] : i \in 1 .. n}
  BY <1>2, <1>3 DEF Range
<1>6. g \in Bijection(1 .. n, Range(g))
  BY <1>2, <1>4, <1>5 DEF Bijection, Injection, Surjection, IsInjective
<1>7. Cardinality(Range(g)) = n
  <2>1. IsFiniteSet(1 .. n) /\ Cardinality(1 .. n) = n
    BY <1>1, FS_Interval
  <2> QED BY <1>6, <2>1, FS_Bijection DEF ExistsBijection
<1>8. Range(g) = pids
  BY <1>1, <1>5, <1>7, FS_Subset
<1> QED BY <1>1, <1>3, <1>8

\* What IInv says of the groups, spelled out.
LEMMA CurrentGroups ==
  ASSUME IInv
  PROVE  /\ entries \in Tables
         /\ groups \in Seq(Pids) /\ Len(groups) \in Nat /\ DOMAIN groups = 1 .. Len(groups)
         /\ Range(groups) = Shown(entries, filter_query)
         /\ Range(groups) \subseteq DOMAIN entries
         /\ groups # <<>> => Len(groups) > 0 /\ selected_row + 1 \in DOMAIN groups
                               /\ Focused \in DOMAIN entries
         /\ groups = <<>> => Len(groups) = 0 /\ Range(groups) = {}
<1>1. entries \in Tables
  BY DEF IInv, Tables
<1>2. Shown(entries, filter_query) \in SUBSET DOMAIN entries
  BY DEF Shown
<1>3. groups \in SortGroups(entries, sort_mode, Shown(entries, filter_query))
  BY DEF IInv, GroupsAreCurrent, BuildGroups
<1>4. /\ groups \in Seq(Shown(entries, filter_query)) /\ Len(groups) \in Nat
      /\ DOMAIN groups = 1 .. Len(groups) /\ Range(groups) = Shown(entries, filter_query)
  BY <1>1, <1>2, <1>3, SortedGroups
<1>5. groups \in Seq(Pids)
  <2>1. Shown(entries, filter_query) \subseteq Pids
    BY <1>1, <1>2, TableFinite
  <2> QED BY <1>4, <2>1
<1>6. ASSUME groups # <<>>
      PROVE  Len(groups) > 0 /\ selected_row + 1 \in DOMAIN groups /\ Focused \in DOMAIN entries
  <2>1. Len(groups) > 0
    BY <1>4, <1>6
  <2>2. Max({1, Len(groups)}) = Len(groups)
    BY <1>4, <2>1, MaxOfTwo
  <2>3. selected_row + 1 \in DOMAIN groups
    BY <1>4, <2>2 DEF IInv, FocusInRange
  <2>4. Focused \in Range(groups)
    BY <1>6, <2>3 DEF Focused, Range
  <2> QED BY <1>2, <1>4, <2>1, <2>3, <2>4
<1>7. ASSUME groups = <<>> PROVE Len(groups) = 0 /\ Range(groups) = {}
  BY <1>7 DEF Range
<1> QED BY <1>1, <1>2, <1>4, <1>5, <1>6, <1>7

\* The row of a pid that is shown is a row, and that of the pid.
LEMMA RowOfPid ==
  ASSUME NEW g \in Seq(Pids), NEW p \in Range(g)
  PROVE  Row(g, p) \in 0 .. Len(g) - 1 /\ g[Row(g, p) + 1] = p
<1>1. Len(g) \in Nat /\ DOMAIN g = 1 .. Len(g)
  OBVIOUS
<1>2. PICK k \in 1 .. Len(g) : g[k] = p
  BY <1>1 DEF Range
<1>3. k - 1 \in 0 .. Len(g) - 1 /\ g[(k - 1) + 1] = p
  BY <1>1, <1>2
<1>4. \E i \in 0 .. Len(g) - 1 : g[i + 1] = p
  BY <1>3
<1> QED BY <1>4, Zenon DEF Row

\* Rebuilding leaves the focus in range, and on its process if that is there.
LEMMA FocusAfterInRange ==
  ASSUME selected_row \in Nat, NEW g \in Seq(Pids)
  PROVE  /\ FocusAfter(g) \in Nat
         /\ FocusAfter(g) < Max({1, Len(g)})
         /\ Focused \in Range(g) => g[FocusAfter(g) + 1] = Focused
<1>1. Len(g) \in Nat
  OBVIOUS
<1>2. Max({1, Len(g)}) = IF 1 >= Len(g) THEN 1 ELSE Len(g)
  BY <1>1, MaxOfTwo
<1>3. CASE Focused \in Range(g)
  <2>1. FocusAfter(g) = Row(g, Focused)
    BY <1>3 DEF FocusAfter
  <2>2. Row(g, Focused) \in 0 .. Len(g) - 1 /\ g[Row(g, Focused) + 1] = Focused
    BY <1>3, RowOfPid
  <2>3. Row(g, Focused) \in Nat /\ Row(g, Focused) < Len(g)
    BY <1>1, <2>2
  <2> QED BY <1>1, <1>2, <2>1, <2>2, <2>3
<1>4. CASE Focused \notin Range(g) /\ g = <<>>
  <2>1. FocusAfter(g) = 0
    BY <1>4 DEF FocusAfter
  <2> QED BY <1>1, <1>2, <1>4, <2>1
<1>5. CASE Focused \notin Range(g) /\ g # <<>>
  <2>1. FocusAfter(g) = Min({selected_row, Len(g) - 1})
    BY <1>5 DEF FocusAfter
  <2>2. Len(g) > 0
    BY <1>5
  <2>3. Min({selected_row, Len(g) - 1}) = IF selected_row <= Len(g) - 1 THEN selected_row ELSE Len(g) - 1
    BY <1>1, MinOfTwo
  <2> QED BY <1>1, <1>2, <1>5, <2>1, <2>2, <2>3
<1> QED BY <1>3, <1>4, <1>5

----------------------------------------------------------------------------
LEMMA InitIInv == Init => IInv
<1> SUFFICES ASSUME Init PROVE IInv
  OBVIOUS
<1>1. groups \in BuildGroups(entries, sort_mode, filter_query)
  <2>1. Shown(entries, filter_query) = {}
    BY DEF Init, Shown
  <2>2. groups \in [1 .. 0 -> {}]
    BY DEF Init
  <2>3. groups \in SortGroups(entries, sort_mode, {})
    BY <2>2, FS_EmptySet DEF SortGroups
  <2> QED BY <2>1, <2>3 DEF BuildGroups
<1>2. FocusInRange
  <2>1. Max({1, Len(groups)}) = 1
    BY MaxOfTwo DEF Init
  <2> QED BY <2>1 DEF Init, FocusInRange
<1> QED BY <1>1, <1>2 DEF Init, IInv, GroupsAreCurrent, MarksAreListed, NoPid

\* A step that leaves the table as it is.
LEMMA UnaffectedStep ==
  ASSUME IInv, UNCHANGED <<table, filter_query, sort_mode>>,
         unseen' \in {<<>>} \cup {<<s>> : s \in Snapshots}
  PROVE  IInv'
BY DEF IInv, table, GroupsAreCurrent, FocusInRange, MarksAreListed, Shown

\* A step that changes the query and rebuilds the groups.
LEMMA QueryStep ==
  ASSUME IInv, NEW query, SetQuery(query), UNCHANGED <<unseen, sort_mode>>
  PROVE  IInv' /\ groups' \in Seq(Pids)
<1>1. groups' \in BuildGroups(entries, sort_mode, query)
  BY DEF SetQuery, Rebuilt
<1>2. GroupsAreCurrent'
  BY <1>1 DEF SetQuery, GroupsAreCurrent
<1>3. groups' \in Seq(Pids)
  <2>1. entries \in Tables /\ Shown(entries, query) \in SUBSET DOMAIN entries
    BY CurrentGroups DEF Shown
  <2>2. groups' \in Seq(Shown(entries, query))
    BY <1>1, <2>1, SortedGroups DEF BuildGroups
  <2>3. Shown(entries, query) \subseteq Pids
    BY <2>1, TableFinite
  <2> QED BY <2>2, <2>3
<1>4. selected_row' \in Nat /\ FocusInRange'
  <2>1. selected_row' = FocusAfter(groups')
    BY DEF SetQuery
  <2>2. selected_row \in Nat
    BY DEF IInv
  <2> QED BY <1>3, <2>1, <2>2, FocusAfterInRange DEF FocusInRange
<1> QED BY <1>2, <1>3, <1>4 DEF SetQuery, IInv, MarksAreListed

\* A refresh, with the pruning of what has no sockets any more.
LEMMA RefreshStep ==
  ASSUME IInv, Refresh, UNCHANGED <<filter_query, sort_mode>>
  PROVE  IInv' /\ (unseen # <<>> => groups' \in Seq(Pids))
<1>1. CASE unseen = <<>>
  BY <1>1, UnaffectedStep DEF Refresh, IInv
<1>2. CASE unseen # <<>>
  <2>1. PICK s \in Snapshots : unseen = <<s>> /\ entries' = s
    BY <1>2 DEF Refresh, IInv
  <2>2. groups' \in BuildGroups(s, sort_mode, filter_query)
    BY <1>2, <2>1 DEF Refresh
  <2>3. GroupsAreCurrent'
    BY <2>1, <2>2 DEF GroupsAreCurrent
  <2>4. s \in Tables /\ Shown(s, filter_query) \in SUBSET DOMAIN s
    BY DEF Tables, Shown
  <2>5. groups' \in Seq(Shown(s, filter_query)) /\ Range(groups') = Shown(s, filter_query)
    BY <2>2, <2>4, SortedGroups DEF BuildGroups
  <2>6. groups' \in Seq(Pids)
    <3>1. Shown(s, filter_query) \subseteq Pids
      BY <2>4, TableFinite
    <3> QED BY <2>5, <3>1
  <2>7. selected_row' \in Nat /\ FocusInRange'
    <3>1. selected_row' = FocusAfter(groups') /\ selected_row \in Nat
      BY <1>2 DEF Refresh, IInv
    <3> QED BY <2>6, <3>1, FocusAfterInRange DEF FocusInRange
  <2>8. MarksAreListed'
    <3>1. selected_pids' \subseteq DOMAIN entries'
      BY <1>2 DEF Refresh, MarksKept
    <3>2. expanded_pid' \in Range(groups') \/ expanded_pid' = NoPid
      BY <1>2 DEF Refresh
    <3> QED BY <2>1, <2>4, <2>5, <3>1, <3>2, Zenon DEF MarksAreListed
  <2>9. unseen' = <<>> /\ entries' \in Snapshots
    BY <1>2, <2>1 DEF Refresh
  <2> QED BY <2>3, <2>6, <2>7, <2>8, <2>9 DEF IInv
<1> QED BY <1>1, <1>2

\* Sorting permutes the groups.
LEMMA ApplySortModeStep ==
  ASSUME IInv, ApplySortMode
  PROVE  IInv'
<1>1. /\ entries' = entries /\ filter_query' = filter_query /\ unseen' = unseen
      /\ selected_pids' = selected_pids /\ expanded_pid' = expanded_pid
  BY DEF ApplySortMode, unsorted, filter
<1>2. /\ entries \in Tables /\ Range(groups) = Shown(entries, filter_query)
      /\ Range(groups) \in SUBSET DOMAIN entries
  BY CurrentGroups
<1>3. groups' \in SortGroups(entries, sort_mode', Range(groups))
  BY DEF ApplySortMode
<1>4. GroupsAreCurrent'
  <2>1. groups' \in BuildGroups(entries, sort_mode', filter_query)
    BY <1>2, <1>3 DEF BuildGroups
  <2> QED BY <1>1, <2>1 DEF GroupsAreCurrent
<1>5. /\ groups' \in Seq(Range(groups)) /\ Range(groups') = Range(groups)
      /\ Len(groups') = Cardinality(Range(groups)) /\ Len(groups') \in Nat
  BY <1>2, <1>3, SortedGroups
<1>6. selected_row' \in Nat /\ FocusInRange'
  <2>1. CASE groups = <<>>
    <3>1. Len(groups) = 0 /\ Len(groups') = 0
      BY <1>5, <2>1, CurrentGroups, FS_EmptySet
    <3>2. selected_row' = selected_row
      BY <2>1 DEF ApplySortMode
    <3> QED BY <3>1, <3>2 DEF IInv, FocusInRange
  <2>2. CASE groups # <<>>
    <3>1. Focused \in Range(groups)
      <4>1. selected_row + 1 \in DOMAIN groups
        BY <2>2, CurrentGroups
      <4> QED BY <2>2, <4>1 DEF Focused, Range
    <3>2. groups' \in Seq(Pids)
      <4>1. Range(groups) \subseteq Pids
        BY <1>2, TableFinite
      <4> QED BY <1>5, <4>1
    <3>3. selected_row' = Row(groups', Focused)
      BY <2>2 DEF ApplySortMode
    <3>4. Row(groups', Focused) \in 0 .. Len(groups') - 1
      BY <1>5, <3>1, <3>2, RowOfPid
    <3>5. Max({1, Len(groups')}) = IF 1 >= Len(groups') THEN 1 ELSE Len(groups')
      BY <1>5, MaxOfTwo
    <3> QED BY <1>5, <3>3, <3>4, <3>5 DEF FocusInRange
  <2> QED BY <2>1, <2>2
<1> QED BY <1>1, <1>4, <1>6 DEF IInv, MarksAreListed

\* The keys that move the focus, mark and expand.
LEMMA FocusKeyStep ==
  ASSUME IInv, NEW key, key \in {"up", "down"}, MoveFocus(key)
  PROVE  IInv'
<1>1. UNCHANGED <<unseen, entries, groups, selected_pids, expanded_pid, filter_query, sort_mode>>
  BY DEF MoveFocus, ui, filter, sorting
<1>2. selected_row' = Moved(selected_row, Len(groups), key)
  BY DEF MoveFocus
<1>3. Len(groups) \in Nat /\ selected_row \in Nat /\ (groups # <<>> => Len(groups) > 0)
        /\ (groups = <<>> => Len(groups) = 0)
  BY CurrentGroups DEF IInv
<1>4. Max({1, Len(groups)}) = IF 1 >= Len(groups) THEN 1 ELSE Len(groups)
  BY <1>3, MaxOfTwo
<1>5. CASE key = "up"
  <2>1. selected_row' = Max({0, selected_row - 1})
    BY <1>2, <1>5 DEF Moved
  <2>2. Max({0, selected_row - 1}) = IF 0 >= selected_row - 1 THEN 0 ELSE selected_row - 1
    BY <1>3, MaxOfTwo
  <2>3. selected_row' \in Nat /\ selected_row' <= selected_row
    BY <1>3, <2>1, <2>2
  <2> QED BY <1>1, <1>3, <1>4, <2>3 DEF IInv, GroupsAreCurrent, FocusInRange, MarksAreListed
<1>6. CASE key = "down"
  <2>1. groups # <<>>
    BY <1>6 DEF MoveFocus
  <2>2. selected_row' = Min({selected_row + 1, Len(groups) - 1})
    BY <1>2, <1>6 DEF Moved
  <2>3. Min({selected_row + 1, Len(groups) - 1})
          = IF selected_row + 1 <= Len(groups) - 1 THEN selected_row + 1 ELSE Len(groups) - 1
    BY <1>3, MinOfTwo
  <2>4. selected_row' \in Nat /\ selected_row' < Len(groups)
    BY <1>3, <2>1, <2>2, <2>3
  <2> QED
    BY <1>1, <1>3, <1>4, <2>1, <2>4 DEF IInv, GroupsAreCurrent, FocusInRange, MarksAreListed
<1> QED BY <1>5, <1>6

LEMMA MarkKeyStep ==
  ASSUME IInv, ToggleExpanded \/ ToggleSelected \/ ConfirmKill
  PROVE  IInv'
<1>1. UNCHANGED <<unseen, entries, groups, selected_row, filter_query, sort_mode>>
  BY DEF ToggleExpanded, ToggleSelected, ConfirmKill, ui, filter, sorting
<1>2. MarksAreListed'
  <2>1. CASE ToggleExpanded
    BY <1>1, <2>1, CurrentGroups DEF ToggleExpanded, IInv, MarksAreListed, NoPid
  <2>2. CASE ToggleSelected
    BY <1>1, <2>2, CurrentGroups DEF ToggleSelected, IInv, MarksAreListed, SymDiff
  <2>3. CASE ConfirmKill
    BY <1>1, <2>3 DEF ConfirmKill, IInv, MarksAreListed
  <2> QED BY <2>1, <2>2, <2>3
<1> QED BY <1>1, <1>2 DEF IInv, GroupsAreCurrent, FocusInRange

\* Every step keeps the invariant.
LEMMA IInvStep ==
  ASSUME IInv, [Next]_vars
  PROVE  IInv'
<1> DEFINE Updates == {<<>>} \cup {<<s>> : s \in Snapshots}
<1>0. unseen \in Updates
  BY DEF IInv
<1>1. CASE CustomEvent
  BY <1>1, RefreshStep DEF CustomEvent, filter, sorting
<1>2. CASE Render \/ EndLoop \/ KillerAnswers \/ KillerCloses
  BY <1>0, <1>2, UnaffectedStep
     DEF Render, EndLoop, KillerAnswers, KillerCloses, ui, filter, sorting
<1>3. CASE PromptKey
  <2>1. CASE ConfirmKill
    BY <2>1, MarkKeyStep
  <2>2. CASE ConfirmForce \/ DeclineForce \/ DeclineKill
    BY <1>0, <2>2, UnaffectedStep
       DEF ConfirmForce, DeclineForce, DeclineKill, filter, sorting
  <2> QED BY <1>3, <2>1, <2>2 DEF PromptKey
<1>4. CASE FilterKey
  <2>1. CASE ApplyFilter
    BY <1>0, <2>1, UnaffectedStep DEF ApplyFilter, unfiltered, sorting
  <2>2. CASE AbandonFilter
    BY <2>2, QueryStep DEF AbandonFilter, unfiltered, sorting
  <2>3. CASE EraseCharacter
    BY <2>3, QueryStep DEF EraseCharacter, unfiltered, sorting
  <2>4. ASSUME NEW c \in Characters, TypeCharacter(c) PROVE IInv'
    BY <2>4, QueryStep DEF TypeCharacter, unfiltered, sorting
  <2> QED BY <1>4, <2>1, <2>2, <2>3, <2>4 DEF FilterKey
<1>5. CASE MenuKey
  <2>1. ASSUME NEW key, MoveTheme(key) PROVE IInv'
    BY <1>0, <2>1, UnaffectedStep DEF MoveTheme, unthemed, filter, sorting
  <2>2. ASSUME NEW key, MoveSort(key) PROVE IInv'
    BY <1>0, <2>2, UnaffectedStep DEF MoveSort, unsorted, filter, table
  <2>3. CASE ApplyTheme \/ CloseThemeMenu
    BY <1>0, <2>3, UnaffectedStep DEF ApplyTheme, CloseThemeMenu, unthemed, filter, sorting
  <2>4. CASE CloseSortMenu
    BY <1>0, <2>4, UnaffectedStep DEF CloseSortMenu, unsorted, filter, table
  <2> QED BY <1>5, <2>1, <2>2, <2>3, <2>4, ApplySortModeStep DEF MenuKey
<1>6. CASE TableKey
  <2>1. CASE AskToKill \/ ToggleHelp
    BY <1>0, <2>1, UnaffectedStep DEF AskToKill, ToggleHelp, filter, sorting
  <2>2. CASE OpenSortMenu
    BY <1>0, <2>2, UnaffectedStep DEF OpenSortMenu, unsorted, filter, table
  <2>3. CASE OpenThemeMenu
    BY <1>0, <2>3, UnaffectedStep DEF OpenThemeMenu, unthemed, filter, sorting
  <2>4. CASE StartFilter
    BY <2>4, QueryStep DEF StartFilter, unfiltered, sorting
  <2>5. ASSUME NEW key, Quit(key) PROVE IInv'
    BY <1>0, <2>5, UnaffectedStep DEF Quit, filter, sorting
  <2> QED BY <1>6, <2>1, <2>2, <2>3, <2>4, <2>5, FocusKeyStep, MarkKeyStep DEF TableKey
<1>7. ASSUME NEW s \in Snapshots, Publish(s) PROVE IInv'
  BY <1>7, UnaffectedStep DEF Publish, ui, filter, sorting
<1>8. CASE Terminated \/ UNCHANGED vars
  BY <1>0, <1>8, UnaffectedStep DEF Terminated, vars, ui, filter, sorting
<1> QED BY <1>1, <1>2, <1>3, <1>4, <1>5, <1>6, <1>7, <1>8 DEF Next

LEMMA Invariance == Spec => []IInv
BY InitIInv, IInvStep, PTL DEF Spec

----------------------------------------------------------------------------
(* What rebuilding does to the focus, and a refresh to the marks *)

\* The focus after a rebuild that kept its process.
LEMMA FocusKept ==
  ASSUME selected_row \in Nat, groups' \in Seq(Pids), selected_row' = FocusAfter(groups'),
         Focused \in Range(groups')
  PROVE  Focused' = Focused
<1>1. groups' # <<>>
  BY DEF Range
<1>2. groups'[selected_row' + 1] = Focused
  BY FocusAfterInRange
<1> QED BY <1>1, <1>2 DEF Focused

\* The groups change by a new query, by a refresh or by a new order.
LEMMA GroupsChange ==
  ASSUME [Next]_vars, groups' # groups
  PROVE  \/ ApplySortMode
         \/ CustomEvent /\ unseen # <<>>
         \/ \E query : SetQuery(query) /\ UNCHANGED <<unseen, sort_mode>>
<1>1. CASE CustomEvent
  BY <1>1 DEF CustomEvent, Refresh, table
<1>2. CASE Render \/ EndLoop \/ KillerAnswers \/ KillerCloses \/ PromptKey
  BY <1>2 DEF Render, EndLoop, KillerAnswers, KillerCloses, PromptKey, ConfirmForce,
              DeclineForce, ConfirmKill, DeclineKill, table
<1>3. CASE FilterKey
  BY <1>3 DEF FilterKey, ApplyFilter, AbandonFilter, EraseCharacter, TypeCharacter, unfiltered,
              sorting, table
<1>4. CASE MenuKey
  BY <1>4 DEF MenuKey, MoveTheme, MoveSort, ApplyTheme, CloseThemeMenu, CloseSortMenu, unthemed,
              table
<1>5. CASE TableKey
  BY <1>5 DEF TableKey, MoveFocus, ToggleExpanded, ToggleSelected, AskToKill, OpenSortMenu,
              OpenThemeMenu, StartFilter, ToggleHelp, Quit, unfiltered, unthemed, sorting, table
<1>6. CASE \E s \in Snapshots : Publish(s)
  BY <1>6 DEF Publish, table
<1>7. CASE Terminated \/ UNCHANGED vars
  BY <1>7 DEF Terminated, vars, table
<1> QED BY <1>1, <1>2, <1>3, <1>4, <1>5, <1>6, <1>7 DEF Next

LEMMA FocusStep ==
  ASSUME IInv, [Next]_vars, groups' # groups, Focused \in Range(groups')
  PROVE  Focused' = Focused
<1>1. selected_row \in Nat
  BY DEF IInv
<1>2. CASE ApplySortMode
  <2>1. groups # <<>>
    <3>1. /\ entries \in Tables /\ Range(groups) \in SUBSET DOMAIN entries
          /\ groups = <<>> => Range(groups) = {}
      BY CurrentGroups
    <3>2. groups' \in SortGroups(entries, sort_mode', Range(groups))
      BY <1>2 DEF ApplySortMode
    <3>3. Range(groups') = Range(groups)
      BY <3>1, <3>2, SortedGroups
    <3> QED BY <3>1, <3>3
  <2>2. groups' \in Seq(Pids)
    <3>1. /\ entries \in Tables /\ Range(groups) \in SUBSET DOMAIN entries
      BY CurrentGroups
    <3>2. groups' \in SortGroups(entries, sort_mode', Range(groups))
      BY <1>2 DEF ApplySortMode
    <3>3. groups' \in Seq(Range(groups))
      BY <3>1, <3>2, SortedGroups
    <3>4. Range(groups) \subseteq Pids
      BY <3>1, TableFinite
    <3> QED BY <3>3, <3>4
  <2>3. selected_row' = Row(groups', Focused)
    BY <1>2, <2>1 DEF ApplySortMode
  <2>4. selected_row' = FocusAfter(groups')
    BY <2>3 DEF FocusAfter
  <2> QED BY <1>1, <2>2, <2>4, FocusKept
<1>3. CASE CustomEvent /\ unseen # <<>>
  <2>1. groups' \in Seq(Pids)
    BY <1>3, RefreshStep DEF CustomEvent, filter, sorting
  <2>2. selected_row' = FocusAfter(groups')
    BY <1>3 DEF CustomEvent, Refresh
  <2> QED BY <1>1, <2>1, <2>2, FocusKept
<1>4. ASSUME NEW query, SetQuery(query), UNCHANGED <<unseen, sort_mode>>
      PROVE  Focused' = Focused
  <2>1. groups' \in Seq(Pids)
    BY <1>4, QueryStep
  <2>2. selected_row' = FocusAfter(groups')
    BY <1>4 DEF SetQuery
  <2> QED BY <1>1, <2>1, <2>2, FocusKept
<1> QED BY <1>2, <1>3, <1>4, GroupsChange

\* Marks change by the user's keys and by a refresh.
LEMMA MarkStep ==
  ASSUME [Next]_vars, NEW p \in selected_pids \ selected_pids'
  PROVE  p \notin DOMAIN entries' \/ ToggleSelected \/ ConfirmKill
<1>1. CASE CustomEvent
  BY <1>1 DEF CustomEvent, Refresh, MarksKept, table
<1>2. CASE Render \/ EndLoop \/ KillerAnswers \/ KillerCloses \/ PromptKey
  BY <1>2 DEF Render, EndLoop, KillerAnswers, KillerCloses, PromptKey, ConfirmForce,
              DeclineForce, DeclineKill, table
<1>3. CASE FilterKey
  BY <1>3 DEF FilterKey, ApplyFilter, AbandonFilter, EraseCharacter, TypeCharacter, SetQuery,
              table
<1>4. CASE MenuKey
  BY <1>4 DEF MenuKey, MoveTheme, MoveSort, ApplyTheme, CloseThemeMenu, ApplySortMode,
              CloseSortMenu, unthemed, unsorted, table
<1>5. CASE TableKey
  BY <1>5 DEF TableKey, MoveFocus, ToggleExpanded, AskToKill, OpenSortMenu, OpenThemeMenu,
              StartFilter, SetQuery, ToggleHelp, Quit, unthemed, unsorted, table
<1>6. CASE \E s \in Snapshots : Publish(s)
  BY <1>6 DEF Publish, table
<1>7. CASE Terminated \/ UNCHANGED vars
  BY <1>7 DEF Terminated, vars, table
<1> QED BY <1>1, <1>2, <1>3, <1>4, <1>5, <1>6, <1>7 DEF Next

----------------------------------------------------------------------------
\* The focused row exists whenever the code reads it (FocusInRange), after
\* any sequence of keys and snapshots.
THEOREM FocusExists == Spec => []FocusInRange
<1>1. IInv => FocusInRange
  BY DEF IInv
<1> QED BY <1>1, Invariance, PTL

\* The groups shown are always the snapshot, sorted and filtered as the user
\* asked (GroupsAreCurrent).
THEOREM TableIsCurrent == Spec => []GroupsAreCurrent
<1>1. IInv => GroupsAreCurrent
  BY DEF IInv
<1> QED BY <1>1, Invariance, PTL

\* Marks and the expanded process are processes of the snapshot
\* (MarksAreListed).
THEOREM MarksListed == Spec => []MarksAreListed
<1>1. IInv => MarksAreListed
  BY DEF IInv
<1> QED BY <1>1, Invariance, PTL

\* Filtering, sorting and new snapshots leave the focus on its process while
\* that is shown (FocusFollowsProcess).
THEOREM FocusFollows == Spec => FocusFollowsProcess
BY Invariance, FocusStep, PTL DEF Spec, FocusFollowsProcess

\* A mark is lost only to the user or with its process (MarksSurvive).
THEOREM MarksStay == Spec => MarksSurvive
<1>1. [Next]_vars =>
        \A p \in selected_pids \ selected_pids' :
          p \notin DOMAIN entries' \/ ToggleSelected \/ ConfirmKill
  BY MarkStep
<1> QED BY <1>1, PTL DEF Spec, MarksSurvive

----------------------------------------------------------------------------
(* What takes the keys *)

\* A key opens a mode only in the table, where no other is open; the SIGKILL
\* prompt opens in a Custom event, but not over the other prompt.
LEMMA ModeStep ==
  ASSUME ModesExclusive, [Next]_vars
  PROVE  ModesExclusive'
<1> DEFINE modes == <<confirm_kill, confirm_force_kill, filtering, theme_menu, sort_menu>>
<1> USE DEF ModesExclusive
<1>1. CASE CustomEvent
  BY <1>1 DEF CustomEvent, DrainKillResults, OpensPrompt, term, filter, theming, sorting
<1>2. CASE Render \/ EndLoop \/ KillerAnswers \/ KillerCloses
  <2>1. UNCHANGED modes
    BY <1>2 DEF Render, EndLoop, KillerAnswers, KillerCloses, ui, term, force, filter, theming,
                sorting
  <2> QED BY <2>1
<1>3. CASE PromptKey
  <2>1. /\ UNCHANGED <<filtering, theme_menu, sort_menu>>
        /\ \/ confirm_kill' = FALSE /\ UNCHANGED confirm_force_kill
           \/ confirm_force_kill' = FALSE /\ UNCHANGED confirm_kill
    BY <1>3 DEF PromptKey, ConfirmForce, DeclineForce, ConfirmKill, DeclineKill, term, force,
                filter, theming, sorting
  <2> QED BY <2>1
<1>4. CASE FilterKey
  <2>1. /\ UNCHANGED <<confirm_kill, confirm_force_kill, theme_menu, sort_menu>>
        /\ filtering' = FALSE \/ UNCHANGED filtering
    BY <1>4 DEF FilterKey, ApplyFilter, AbandonFilter, EraseCharacter, TypeCharacter,
                unfiltered, term, force, theming, sorting
  <2> QED BY <2>1
<1>5. CASE MenuKey
  BY <1>5 DEF MenuKey, MoveTheme, MoveSort, ApplyTheme, CloseThemeMenu, ApplySortMode,
              CloseSortMenu, unthemed, unsorted, term, force, filter, theming, sorting
<1>6. CASE TableKey
  <2>1. ~confirm_kill /\ ~confirm_force_kill /\ ~filtering /\ ~theme_menu /\ ~sort_menu
    BY <1>6 DEF TableKey, MoveFocus, ToggleExpanded, ToggleSelected, AskToKill, OpenSortMenu,
                OpenThemeMenu, StartFilter, ToggleHelp, Quit, Pressed, Mode
  <2>2. CASE AskToKill
    BY <2>1, <2>2 DEF AskToKill, force, filter, theming, sorting
  <2>3. CASE OpenSortMenu \/ OpenThemeMenu \/ StartFilter
    BY <2>1, <2>3 DEF OpenSortMenu, OpenThemeMenu, StartFilter, unsorted, unthemed, unfiltered,
                      term, force, filter, theming, sorting
  <2>4. CASE \/ ToggleExpanded \/ ToggleSelected \/ ToggleHelp
             \/ (\E key \in {"up", "down"} : MoveFocus(key))
             \/ (\E key \in {"q", "escape"} : Quit(key))
    <3>1. UNCHANGED modes
      BY <2>4 DEF MoveFocus, ToggleExpanded, ToggleSelected, ToggleHelp, Quit, ui, term, force,
                  filter, theming, sorting
    <3> QED BY <3>1
  <2> QED BY <1>6, <2>2, <2>3, <2>4 DEF TableKey
<1>7. CASE Terminated \/ (\E s \in Snapshots : Publish(s)) \/ UNCHANGED vars
  <2>1. UNCHANGED modes
    BY <1>7 DEF Terminated, Publish, vars, ui, term, force, filter, theming, sorting
  <2> QED BY <2>1
<1> QED BY <1>1, <1>2, <1>3, <1>4, <1>5, <1>6, <1>7 DEF Next

\* Two modes are never open at once, except that the SIGKILL prompt opens over
\* the filter or a menu: the order in which the handler looks at them matters
\* only there.
THEOREM OneMode == Spec => []ModesExclusive
<1>1. Init => ModesExclusive
  BY DEF Init, ModesExclusive
<1> QED BY <1>1, ModeStep, PTL DEF Spec

----------------------------------------------------------------------------
(* Types *)

Flags == {filtering, sort_menu, theme_menu, show_help, confirm_kill, confirm_force_kill, exiting}

\* The types that are not those of the table (IInv).
MenusTyped ==
  /\ has_snapshot \in BOOLEAN
  /\ Flags \subseteq BOOLEAN
  /\ filter_query \in Seq(Characters)
  /\ sort_menu_row \in 0 .. Len(SortModes) - 1
  /\ sort_mode \in Range(SortModes)
  /\ theme_menu_row \in 0 .. Len(Themes) - 1
  /\ active_theme \in Range(Themes)

\* With the types of the prompts goes what the prompts ask about: without the
\* pids that wait the SIGKILL prompt might stay open for nobody.
PromptsTyped ==
  /\ pending_kill_pids \in Seq(Pids)
  /\ pending_force_kill_pids \in Seq(Pids)
  /\ prompted \in SUBSET Pids
  /\ ServiceTypeOK
  /\ PromptsAskAboutPending

\* The menus have rows.
LEMMA MenusHaveRows ==
  /\ Len(SortModes) \in Nat \ {0} /\ DOMAIN SortModes = 1 .. Len(SortModes)
  /\ Len(Themes) \in Nat \ {0} /\ DOMAIN Themes = 1 .. Len(Themes)
<1>1. /\ Len(SortModes) \in Nat /\ DOMAIN SortModes = 1 .. Len(SortModes)
      /\ Len(Themes) \in Nat /\ DOMAIN Themes = 1 .. Len(Themes)
  BY TableAssumption
<1>2. DOMAIN SortModes # {} /\ DOMAIN Themes # {}
  BY TableAssumption DEF Range
<1> QED BY <1>1, <1>2

LEMMA MovedInRange ==
  ASSUME NEW count \in Nat \ {0}, NEW row \in 0 .. count - 1, NEW key
  PROVE  Moved(row, count, key) \in 0 .. count - 1
<1>1. Max({0, row - 1}) = IF 0 >= row - 1 THEN 0 ELSE row - 1
  BY MaxOfTwo
<1>2. Min({row + 1, count - 1}) = IF row + 1 <= count - 1 THEN row + 1 ELSE count - 1
  BY MinOfTwo
<1> QED BY <1>1, <1>2 DEF Moved

LEMMA MenusInit == Init => MenusTyped
<1> SUFFICES ASSUME Init PROVE MenusTyped
  OBVIOUS
<1>1. 0 \in 0 .. Len(SortModes) - 1 /\ 0 \in 0 .. Len(Themes) - 1
  BY MenusHaveRows
<1>2. "name" \in Range(SortModes) /\ "rose_pine" \in Range(Themes)
  BY TableAssumption
<1>3. <<>> \in Seq(Characters)
  OBVIOUS
<1> QED BY <1>1, <1>2, <1>3 DEF Init, MenusTyped, Flags

LEMMA MenusStep ==
  ASSUME MenusTyped, [Next]_vars
  PROVE  MenusTyped'
<1> USE DEF MenusTyped, Flags
<1>1. CASE CustomEvent
  BY <1>1 DEF CustomEvent, Refresh, DrainKillResults, OpensPrompt, table, filter, sorting,
              theming, term
<1>2. CASE Render \/ EndLoop \/ KillerAnswers \/ KillerCloses \/ PromptKey
  BY <1>2 DEF Render, EndLoop, KillerAnswers, KillerCloses, PromptKey, ConfirmForce, DeclineForce,
              ConfirmKill, DeclineKill, ui, table, filter, sorting, theming, term, force
<1>3. CASE FilterKey
  <2>1. UNCHANGED <<has_snapshot, sorting, theming, show_help, term, force, exiting>>
    BY <1>3 DEF FilterKey, ApplyFilter, AbandonFilter, EraseCharacter, TypeCharacter, SetQuery,
                unfiltered, table
  <2>2. filtering' \in BOOLEAN
    BY <1>3 DEF FilterKey, ApplyFilter, AbandonFilter, EraseCharacter, TypeCharacter
  <2>3. filter_query' \in Seq(Characters)
    <3>1. CASE ApplyFilter
      BY <3>1 DEF ApplyFilter
    <3>2. CASE AbandonFilter
      BY <3>2 DEF AbandonFilter, SetQuery
    <3>3. CASE EraseCharacter
      BY <3>3, FrontAndLast DEF EraseCharacter, SetQuery
    <3>4. ASSUME NEW c \in Characters, TypeCharacter(c) PROVE filter_query' \in Seq(Characters)
      BY <3>4 DEF TypeCharacter, SetQuery
    <3> QED BY <1>3, <3>1, <3>2, <3>3, <3>4 DEF FilterKey
  <2> QED BY <2>1, <2>2, <2>3 DEF sorting, theming, term, force
<1>4. CASE MenuKey
  <2>1. /\ UNCHANGED <<has_snapshot, filter, show_help, term, force, exiting>>
        /\ theme_menu' \in {theme_menu, FALSE} /\ sort_menu' \in {sort_menu, FALSE}
    BY <1>4 DEF MenuKey, MoveTheme, MoveSort, ApplyTheme, CloseThemeMenu, ApplySortMode,
                CloseSortMenu, unthemed, unsorted, table, sorting, theming
  <2>2. sort_menu_row' \in 0 .. Len(SortModes) - 1 /\ theme_menu_row' \in 0 .. Len(Themes) - 1
    BY <1>4, MenusHaveRows, MovedInRange
       DEF MenuKey, MoveTheme, MoveSort, ApplyTheme, CloseThemeMenu, ApplySortMode,
           CloseSortMenu, unthemed, unsorted, sorting, theming
  <2>3. sort_mode' \in Range(SortModes) /\ active_theme' \in Range(Themes)
    <3>1. sort_menu_row + 1 \in DOMAIN SortModes /\ theme_menu_row + 1 \in DOMAIN Themes
      BY MenusHaveRows
    <3> QED BY <1>4, <3>1
            DEF MenuKey, MoveTheme, MoveSort, ApplyTheme, CloseThemeMenu, ApplySortMode,
                CloseSortMenu, unthemed, unsorted, sorting, theming, Range
  <2> QED BY <2>1, <2>2, <2>3 DEF filter, term, force
<1>5. CASE TableKey
  <2>1. CASE OpenSortMenu
    <3>1. sort_menu_row' \in 0 .. Len(SortModes) - 1
      BY <2>1, MenusHaveRows DEF OpenSortMenu
    <3> QED BY <2>1, <3>1 DEF OpenSortMenu, unsorted, filter, theming, term, force
  <2>2. CASE OpenThemeMenu
    <3>1. theme_menu_row' \in 0 .. Len(Themes) - 1
      BY <2>2, MenusHaveRows DEF OpenThemeMenu
    <3> QED BY <2>2, <3>1 DEF OpenThemeMenu, unthemed, table, filter, sorting, term, force
  <2>3. CASE StartFilter
    BY <2>3 DEF StartFilter, SetQuery, unfiltered, sorting, theming, term, force
  <2>4. CASE AskToKill \/ ToggleHelp
    BY <2>4 DEF AskToKill, HasMarks, ToggleHelp, table, filter, sorting, theming, term, force
  <2>5. CASE \/ \E key \in {"up", "down"} : MoveFocus(key)
             \/ ToggleExpanded
             \/ ToggleSelected
             \/ \E key \in {"q", "escape"} : Quit(key)
    BY <2>5 DEF MoveFocus, ToggleExpanded, ToggleSelected, Quit, ui, table, filter, sorting,
                theming, term, force
  <2> QED BY <1>5, <2>1, <2>2, <2>3, <2>4, <2>5 DEF TableKey
<1>6. CASE (\E s \in Snapshots : Publish(s)) \/ Terminated \/ UNCHANGED vars
  BY <1>6 DEF Publish, Terminated, vars, ui, table, filter, sorting, theming, term, force
<1> QED BY <1>1, <1>2, <1>3, <1>4, <1>5, <1>6 DEF Next

\* Whatever is asked of the killer and whatever it answers.
LEMMA ServiceStep ==
  ASSUME ServiceTypeOK,
         (\E batch, forced : Ask(batch, forced)) \/ AnswerSome \/ Drain \/ Close \/ Closed
  PROVE  ServiceTypeOK'
<1> USE DEF ServiceTypeOK
<1>1. ASSUME NEW batch, NEW forced, Ask(batch, forced) PROVE ServiceTypeOK'
  BY <1>1 DEF Ask
<1>2. ASSUME NEW r \in Requests, Answer(r) PROVE ServiceTypeOK'
  <2>1. PICK status \in Answers(r) : answered' = Append(answered, ResultOf(r, status))
    BY <1>2 DEF Answer
  <2>2. ResultOf(r, status) \in KillResults
    <3>1. status \in KillStatus
      BY DEF Answers, KillStatus
    <3> QED BY <3>1 DEF ResultOf, KillResults, Requests
  <2>3. answered' \in Seq(KillResults)
    BY <2>1, <2>2
  <2>4. asked' \in [Requests -> Nat]
    BY <1>2 DEF Answer
  <2> QED BY <1>2, <2>3, <2>4 DEF Answer
<1>3. CASE Drain
  BY <1>3 DEF Drain
<1>4. CASE Close \/ Closed
  BY <1>4 DEF Close, Closed
<1> QED BY <1>1, <1>2, <1>3, <1>4 DEF AnswerSome

\* The pids to offer SIGKILL for are pids, and none that waits is dropped.
LEMMA ResistantTyped ==
  ASSUME pending_force_kill_pids \in Seq(Pids), answered \in Seq(KillResults)
  PROVE  /\ Resistant \in Seq(Pids)
         /\ pending_force_kill_pids # <<>> => Resistant # <<>>
<1> DEFINE places  == {i \in DOMAIN answered : Resisted(answered[i])}
           drained == Subsequence(answered, places)
           more    == [i \in DOMAIN drained |-> drained[i].pid]
<1>1. drained \in Seq(KillResults)
  BY SubsequenceType
<1> HIDE DEF drained, places
<1>2. more \in Seq(Pids)
  <2>1. Len(drained) \in Nat /\ DOMAIN drained = 1 .. Len(drained)
    BY <1>1
  <2>2. \A result \in KillResults : result.pid \in Pids
    BY DEF KillResults
  <2>3. \A i \in 1 .. Len(drained) : drained[i] \in KillResults
    BY <1>1
  <2> QED BY <2>1, <2>2, <2>3
<1>3. Resistant = pending_force_kill_pids \o more
  BY DEF Resistant, drained, places
<1> HIDE DEF more
<1>4. Resistant \in Seq(Pids) /\ Len(Resistant) = Len(pending_force_kill_pids) + Len(more)
  BY <1>2, <1>3
<1>5. Len(more) \in Nat /\ Len(pending_force_kill_pids) \in Nat
  BY <1>2
<1>6. ASSUME pending_force_kill_pids # <<>> PROVE Resistant # <<>>
  <2>1. Len(pending_force_kill_pids) > 0
    BY <1>6
  <2> QED BY <1>4, <1>5, <2>1
<1> QED BY <1>4, <1>6

\* A prompt for some pids names them in order, and someone if there is anyone.
LEMMA AscendingPids ==
  ASSUME NEW S \in SUBSET Pids, IsFiniteSet(S)
  PROVE  Ascending(S) \in Seq(Pids) /\ (S # {} <=> Ascending(S) # <<>>)
<1>1. S \subseteq Int
  BY PidsAssumption
<1>2. /\ Ascending(S) \in Seq(S) /\ Len(Ascending(S)) = Cardinality(S)
      /\ Cardinality(S) \in Nat
  BY <1>1, AscendingOrder
<1>3. Ascending(S) \in Seq(Pids)
  <2>1. \A s \in Seq(S) : s \in Seq(Pids)
    OBVIOUS
  <2> QED BY <1>2, <2>1
<1>4. S # {} <=> Cardinality(S) # 0
  BY FS_EmptySet
<1>5. Ascending(S) # <<>> <=> Len(Ascending(S)) # 0
  BY <1>3
<1> QED BY <1>2, <1>3, <1>4, <1>5

LEMMA DrainPrompts ==
  ASSUME MenusTyped, PromptsTyped, CustomEvent
  PROVE  PromptsTyped'
<1> USE DEF PromptsTyped, PromptsAskAboutPending
<1>1. UNCHANGED <<pending_kill_pids, confirm_kill, prompted>>
  BY DEF CustomEvent, term
<1>2. ServiceTypeOK'
  BY ServiceStep DEF CustomEvent, DrainKillResults
<1>3. Resistant \in Seq(Pids) /\ (pending_force_kill_pids # <<>> => Resistant # <<>>)
  BY ResistantTyped DEF ServiceTypeOK
<1>4. CASE OpensPrompt
  <2>1. Range(Resistant) \subseteq Pids /\ IsFiniteSet(Range(Resistant)) /\ Range(Resistant) # {}
    <3>1. Len(Resistant) \in Nat /\ DOMAIN Resistant = 1 .. Len(Resistant) /\ Len(Resistant) # 0
      BY <1>3, <1>4 DEF OpensPrompt
    <3>2. Resistant \in Surjection(1 .. Len(Resistant), Range(Resistant))
      BY <1>3, <3>1 DEF Surjection, Range
    <3>3. IsFiniteSet(Range(Resistant))
      BY <3>1, <3>2, FS_Interval, FS_Surjection
    <3>4. 1 \in DOMAIN Resistant
      BY <3>1
    <3> QED BY <1>3, <3>3, <3>4 DEF Range
  <2>2. pending_force_kill_pids' = Ascending(Range(Resistant))
    BY <1>4 DEF CustomEvent, DrainKillResults
  <2> QED BY <1>1, <1>2, <2>1, <2>2, AscendingPids
<1>5. CASE ~OpensPrompt
  <2>1. pending_force_kill_pids' = Resistant /\ confirm_force_kill' = confirm_force_kill
    BY <1>5 DEF CustomEvent, DrainKillResults, MenusTyped, Flags
  <2> QED BY <1>1, <1>2, <1>3, <2>1
<1> QED BY <1>4, <1>5

LEMMA PromptsStep ==
  ASSUME IInv, MenusTyped, PromptsTyped, [Next]_vars
  PROVE  PromptsTyped'
<1> USE DEF PromptsTyped, PromptsAskAboutPending
<1>1. CASE Render
  <2>1. ForcePrompt \subseteq Pids
    <3>1. \A i \in DOMAIN pending_force_kill_pids : pending_force_kill_pids[i] \in Pids
      OBVIOUS
    <3> QED BY <3>1 DEF ForcePrompt, Range
  <2>2. ServiceTypeOK'
    BY <1>1 DEF Render, serviceVars, ServiceTypeOK
  <2> QED BY <1>1, <2>1, <2>2 DEF Render, term, force
<1>2. CASE EndLoop \/ KillerAnswers \/ KillerCloses
  <2>1. ServiceTypeOK'
    BY <1>2, ServiceStep DEF EndLoop, KillerAnswers, KillerCloses
  <2> QED BY <1>2, <2>1 DEF EndLoop, KillerAnswers, KillerCloses, ui, term, force
<1>3. CASE PromptKey
  <2>1. ServiceTypeOK'
    <3>1. (\E batch, forced : Ask(batch, forced)) \/ UNCHANGED serviceVars
      BY <1>3 DEF PromptKey, ConfirmForce, DeclineForce, ConfirmKill, DeclineKill
    <3> QED BY <3>1, ServiceStep DEF serviceVars, ServiceTypeOK
  <2>2. prompted' = prompted
    BY <1>3 DEF PromptKey, ConfirmForce, DeclineForce, ConfirmKill, DeclineKill
  <2>3. \/ confirm_force_kill' = FALSE /\ pending_force_kill_pids' = <<>> /\ UNCHANGED term
        \/ confirm_kill' = FALSE /\ pending_kill_pids' = <<>> /\ UNCHANGED force
    BY <1>3 DEF PromptKey, ConfirmForce, DeclineForce, ConfirmKill, DeclineKill
  <2>4. CASE confirm_force_kill' = FALSE /\ pending_force_kill_pids' = <<>> /\ UNCHANGED term
    BY <2>1, <2>2, <2>4 DEF term
  <2>5. CASE confirm_kill' = FALSE /\ pending_kill_pids' = <<>> /\ UNCHANGED force
    BY <2>1, <2>2, <2>5 DEF force
  <2> QED BY <2>3, <2>4, <2>5
<1>4. CASE FilterKey \/ MenuKey
  <2>1. UNCHANGED <<term, force, prompted, serviceVars>>
    BY <1>4 DEF FilterKey, ApplyFilter, AbandonFilter, EraseCharacter, TypeCharacter,
                MenuKey, MoveTheme, MoveSort, ApplyTheme, CloseThemeMenu, ApplySortMode,
                CloseSortMenu, unfiltered, unthemed, unsorted
  <2> QED BY <2>1 DEF term, force, serviceVars, ServiceTypeOK
<1>5. CASE TableKey
  <2>1. CASE AskToKill
    <3>1. selected_pids \subseteq Pids /\ IsFiniteSet(selected_pids)
      <4>1. selected_pids \subseteq DOMAIN entries /\ entries \in Tables
        BY DEF IInv, MarksAreListed, Tables
      <4> QED BY <4>1, TableFinite, FS_Subset
    <3>2. pending_kill_pids' = Ascending(selected_pids) /\ confirm_kill' = (selected_pids # {})
      BY <2>1 DEF AskToKill, HasMarks
    <3> QED BY <2>1, <3>1, <3>2, AscendingPids DEF AskToKill, force, serviceVars, ServiceTypeOK
  <2>2. CASE \/ \E key \in {"up", "down"} : MoveFocus(key)
             \/ ToggleExpanded
             \/ ToggleSelected
             \/ OpenSortMenu
             \/ OpenThemeMenu
             \/ StartFilter
             \/ ToggleHelp
             \/ \E key \in {"q", "escape"} : Quit(key)
    BY <2>2 DEF MoveFocus, ToggleExpanded, ToggleSelected, OpenSortMenu, OpenThemeMenu,
                StartFilter, ToggleHelp, Quit, ui, unfiltered, unthemed, unsorted, term, force,
                serviceVars, ServiceTypeOK
  <2> QED BY <1>5, <2>1, <2>2 DEF TableKey
<1>6. CASE (\E s \in Snapshots : Publish(s)) \/ Terminated \/ UNCHANGED vars
  BY <1>6 DEF Publish, Terminated, vars, ui, term, force, serviceVars, ServiceTypeOK
<1> QED BY <1>1, <1>2, <1>3, <1>4, <1>5, <1>6, DrainPrompts DEF Next

LEMMA PromptsInit == Init => PromptsTyped
<1> SUFFICES ASSUME Init PROVE PromptsTyped
  OBVIOUS
<1>1. ServiceTypeOK
  BY DEF Init, ServiceInit, ServiceTypeOK
<1> QED BY <1>1 DEF Init, PromptsTyped, PromptsAskAboutPending

LEMMA TypeInvariance == Spec => [](IInv /\ MenusTyped /\ PromptsTyped)
BY Invariance, MenusInit, MenusStep, PromptsInit, PromptsStep, PTL DEF Spec

\* Every member of the table keeps its type, whatever is pressed, published
\* or answered (TypeOK).
THEOREM TypeCorrect == Spec => []TypeOK
<1>1. IInv /\ MenusTyped /\ PromptsTyped => TypeOK
  <2> SUFFICES ASSUME IInv, MenusTyped, PromptsTyped PROVE TypeOK
    OBVIOUS
  <2>1. entries \in Tables /\ groups \in Seq(Pids)
    BY CurrentGroups
  <2>2. selected_pids \cup ({expanded_pid} \ {NoPid}) \subseteq Pids
    BY <2>1, TableFinite DEF IInv, MarksAreListed
  <2> QED BY <2>1, <2>2 DEF IInv, MenusTyped, Flags, PromptsTyped, TypeOK
<1> QED BY <1>1, TypeInvariance, PTL

\* A prompt that is open asks about someone, and what waits for the SIGTERM
\* prompt is being asked about (PromptsAskAboutPending).
THEOREM PromptsAsk == Spec => []PromptsAskAboutPending
<1>1. PromptsTyped => PromptsAskAboutPending
  BY DEF PromptsTyped
<1> QED BY <1>1, TypeInvariance, PTL
=============================================================================
