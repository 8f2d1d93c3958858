---------------------------- MODULE TableLayout ----------------------------
(***************************************************************************)
(* Which rows the table draws: ExpandedDetailLimit, ExpandedGroupLimit and *)
(* VisibleGroupRange of src/tui/live_table.cpp.                            *)
(***************************************************************************)
EXTENDS Integers

Clamp(value, low, high) ==
  IF value < low THEN low ELSE IF value > high THEN high ELSE value

ExpandedDetailLimit(height) == Clamp(height - 20, 3, 8)

ExpandedGroupLimit(height) == Clamp(height - 18 - ExpandedDetailLimit(height), 3, 8)

GroupLimit(expanded, height) == IF expanded THEN ExpandedGroupLimit(height) ELSE 16

\* The first row drawn: the selected one is in the middle.  The slip: the
\* window moves when the selected row has left it, one row too late.
FirstGroupSlip(selected_row, limit) ==
  IF selected_row > limit THEN selected_row - limit ELSE 0
FirstGroup(selected_row, limit) ==
  IF selected_row > limit \div 2 THEN selected_row - limit \div 2 ELSE 0

\* Rows first to last - 1 of a table of that size, the first being row 0.
VisibleGroupRange(selected_row, size, expanded, height) ==
  LET limit == GroupLimit(expanded, height)
      first == FirstGroup(selected_row, limit)
  IN  [first |-> first, last |-> IF size < first + limit THEN size ELSE first + limit]

\* The row that has the focus is drawn, and no more rows than were to be.
FocusIsDrawn(selected_row, size, expanded, height) ==
  LET range == VisibleGroupRange(selected_row, size, expanded, height)
  IN  /\ range.first \in 0 .. selected_row
      /\ selected_row < range.last
      /\ range.last <= size
      /\ range.last - range.first <= GroupLimit(expanded, height)
=============================================================================
