-------------------------------- MODULE Diff --------------------------------
(***************************************************************************)
(* DiffSnapshots of src/core/diff.cpp.                                     *)
(*                                                                         *)
(* The entries of a snapshot are taken as the code groups them: a function *)
(* from EntryKeys (pid, port, protocol) to the vector of the entries with  *)
(* that key, in the order FinalizeSnapshot left them in; an absent key is  *)
(* an empty vector.  What else an entry holds (name, state, fd_count) is   *)
(* one value: HasChanged compares all of it.  The result keeps its vectors *)
(* per key too; the order of the keys in them is not modelled.             *)
(***************************************************************************)
EXTENDS Sorting, FiniteSetsExt, SequencesExt

\* One step of the greedy matching: the first entry of the current group
\* that equals e and is free is taken; without one e stays unmatched.
Match(m, e, current) ==
  LET free == {i \in DOMAIN current \ m.taken : current[i] = e}
  IN  IF free = {} THEN [m EXCEPT !.unmatched = Append(@, e)]
      ELSE [m EXCEPT !.taken = @ \cup {Min(free)}]

Matched(previous, current) ==
  FoldLeft(LAMBDA m, e : Match(m, e, current), [taken |-> {}, unmatched |-> <<>>], previous)

\* The entries of the current group that were not taken, in order.
Untaken(current, taken) == Subsequence(current, DOMAIN current \ taken)

\* How many unmatched entries are paired up and count as changed.  The slip:
\* all that the current group has.
ChangedCountSlip(unmatched_previous, unmatched_current) == Len(unmatched_current)
ChangedCount(unmatched_previous, unmatched_current) ==
  Min({Len(unmatched_previous), Len(unmatched_current)})

DiffGroup(previous, current) ==
  LET m                 == Matched(previous, current)
      unmatched_current == Untaken(current, m.taken)
      changed           == ChangedCount(m.unmatched, unmatched_current)
  IN  [removed |-> SubSeq(m.unmatched, changed + 1, Len(m.unmatched)),
       added   |-> SubSeq(unmatched_current, changed + 1, Len(unmatched_current)),
       changed |-> SubSeq(unmatched_current, 1, changed)]

DiffSnapshots(previous, current) ==
  [key \in DOMAIN current |-> DiffGroup(previous[key], current[key])]

\* The diff of a first snapshot: everything is added.
AllAdded(current) ==
  [key \in DOMAIN current |-> [removed |-> <<>>, added |-> current[key], changed |-> <<>>]]
=============================================================================
