----------------------------- MODULE LiveTable -----------------------------
(***************************************************************************)
(* src/tui/live_table.cpp: the interactive table.  The handler of FTXUI's  *)
(* event loop takes the keys of the user and a Custom event every 100 ms,  *)
(* which fetches the latest snapshot of the pipeline and the results of    *)
(* the killer.  The pipeline is what it publishes, the killer what         *)
(* KillService promises.                                                   *)
(*                                                                         *)
(* One event is one action.  The loop draws after one or several events,   *)
(* so Render is an action of its own.  Highlights, the usage history and   *)
(* the texts are left out, except where a property is about them.          *)
(***************************************************************************)
EXTENDS KillService, FiniteSetsExt, SequencesExt

CONSTANTS
  Names,            \* the process names in alphabetical order, spelled in lower case
  Snapshots,        \* the snapshots the pipeline may publish
  SortModes,        \* the enum SortMode without kCount, in order
  Themes,           \* the enum Theme without kCount, in order
  Keys,             \* the keys the user presses
  MaxQuery,         \* bound: the length of a filter query
  MaxOutstanding    \* bound: the requests and answers about

\* Function keys; any other key is a character.
SpecialKeys == {"up", "down", "return", "escape", "backspace"}
Characters == Keys \ SpecialKeys

\* What is known of a process with sockets: its name, as a position in Names,
\* and the numbers it can be sorted by.
Metrics == {"cpu", "ram", "ports", "listeners"}
ProcessData == [name : DOMAIN Names, metric : [Metrics -> Nat]]

\* A snapshot gives the processes that have sockets.
ASSUME TableAssumption ==
  /\ Names \in Seq(Seq(STRING))
  /\ \A s \in Snapshots :
       /\ DOMAIN s \subseteq Pids /\ IsFiniteSet(DOMAIN s)
       /\ \A p \in DOMAIN s : s[p] \in ProcessData
  /\ SortModes \in Seq(Metrics \cup {"name"}) /\ "name" \in Range(SortModes)
  /\ Themes \in Seq(STRING) /\ "rose_pine" \in Range(Themes)
  /\ MaxQuery \in Nat /\ MaxOutstanding \in Nat

VARIABLES
  \* the update of the pipeline that captured_at_ tells was not taken yet
  unseen,
  \* the table; groups has the pid of each group, selected_row counts from 0
  has_snapshot, entries, groups, selected_row, selected_pids, expanded_pid,
  \* the filter, the menus and the help
  filtering, filter_query,
  sort_menu, sort_menu_row, sort_mode,
  theme_menu, theme_menu_row, active_theme,
  show_help,
  \* the two confirmations
  confirm_kill, pending_kill_pids,
  confirm_force_kill, pending_force_kill_pids,
  \* screen.Exit was called; the pids of the SIGKILL prompt on the screen
  exiting, prompted

table == <<has_snapshot, entries, groups, selected_row, selected_pids, expanded_pid>>
filter == <<filtering, filter_query>>
sorting == <<sort_menu, sort_menu_row, sort_mode>>
theming == <<theme_menu, theme_menu_row, active_theme>>
term == <<confirm_kill, pending_kill_pids>>
force == <<confirm_force_kill, pending_force_kill_pids>>
ui == <<filter, sorting, theming, show_help, term, force, exiting, prompted>>
vars == <<unseen, table, ui, serviceVars>>

NoPid == 0

Init ==
  /\ unseen = <<>>
  /\ has_snapshot = FALSE
  /\ entries = <<>>
  /\ groups = <<>>
  /\ selected_row = 0
  /\ selected_pids = {}
  /\ expanded_pid = NoPid
  /\ filtering = FALSE
  /\ filter_query = <<>>
  /\ sort_menu = FALSE
  /\ sort_menu_row = 0
  /\ sort_mode = "name"
  /\ theme_menu = FALSE
  /\ theme_menu_row = 0
  /\ active_theme = "rose_pine"
  /\ show_help = FALSE
  /\ confirm_kill = FALSE
  /\ pending_kill_pids = <<>>
  /\ confirm_force_kill = FALSE
  /\ pending_force_kill_pids = <<>>
  /\ exiting = FALSE
  /\ prompted = {}
  /\ ServiceInit

----------------------------------------------------------------------------
(* The groups *)

\* The comparison of SortGroups: larger numbers first, then by name and pid.
Precedes(s, mode, p, q) ==
  LET ByName == s[p].name < s[q].name \/ (s[p].name = s[q].name /\ p < q)
  IN  IF mode = "name" \/ s[p].metric[mode] = s[q].metric[mode] THEN ByName
      ELSE s[p].metric[mode] > s[q].metric[mode]

\* The one order of the pids that SortGroups leaves, as a set.
SortGroups(s, mode, pids) ==
  {g \in [1 .. Cardinality(pids) -> pids] :
     \A i, j \in DOMAIN g : i < j => Precedes(s, mode, g[i], g[j])}

Finds(name, query) ==
  \E i \in 1 .. Len(name) + 1 - Len(query) : SubSeq(name, i, i + Len(query) - 1) = query

\* The processes that the filter leaves.
Shown(s, query) == {p \in DOMAIN s : query = <<>> \/ Finds(Names[s[p].name], query)}

BuildGroups(s, mode, query) == SortGroups(s, mode, Shown(s, query))

\* The pid of the focused group.
Focused == IF groups = <<>> THEN NoPid ELSE groups[selected_row + 1]

Row(pids, p) == CHOOSE i \in 0 .. Len(pids) - 1 : pids[i + 1] = p

\* selected_row_ once the groups were rebuilt: the focus stays on its process
\* or, without it, in range.  The slips: the row is kept as it is; it is only
\* kept in range.
FocusAfterSlip(pids) == IF Focused \in Range(pids) THEN Row(pids, Focused) ELSE selected_row
FocusAfterRowSlip(pids) ==
  IF pids = <<>> THEN 0 ELSE Min({selected_row, Len(pids) - 1})
FocusAfter(pids) ==
  IF Focused \in Range(pids) THEN Row(pids, Focused)
  ELSE IF pids = <<>> THEN 0 ELSE Min({selected_row, Len(pids) - 1})

\* What RebuildGroupsPreservingFocus builds when the query becomes query.
\* The slip: it is built before the query changes.
RebuiltSlip(query) == BuildGroups(entries, sort_mode, filter_query)
Rebuilt(query) == BuildGroups(entries, sort_mode, query)

SetQuery(query) ==
  /\ filter_query' = query
  /\ groups' \in Rebuilt(query)
  /\ selected_row' = FocusAfter(groups')
  /\ UNCHANGED <<has_snapshot, entries, selected_pids, expanded_pid>>

----------------------------------------------------------------------------
(* The Custom event *)

\* The marks that a refresh keeps.  The slips: all; those of visible groups.
MarksKeptSlip(s) == selected_pids
MarksKeptVisibleSlip(s) == selected_pids \cap Shown(s, filter_query)
MarksKept(s) == selected_pids \cap DOMAIN s

Refresh ==
  IF unseen = <<>> THEN UNCHANGED <<unseen, table>>
  ELSE /\ unseen' = <<>>
       /\ has_snapshot' = TRUE
       /\ entries' = unseen[1]
       /\ groups' \in BuildGroups(entries', sort_mode, filter_query)
       /\ selected_pids' = MarksKept(entries')
       /\ expanded_pid' = IF expanded_pid \in Range(groups') THEN expanded_pid ELSE NoPid
       /\ selected_row' = FocusAfter(groups')

Resisted(result) == result.status = "still_running" /\ result.can_force_kill

\* The pids to offer SIGKILL for, with those of the drained results.
Resistant ==
  LET drained == Subsequence(answered, {i \in DOMAIN answered : Resisted(answered[i])})
  IN  pending_force_kill_pids \o [i \in DOMAIN drained |-> drained[i].pid]

\* Whether the prompt opens.  The slip: only when a drained result asks for it.
OpensPromptLateSlip ==
  /\ ~confirm_kill /\ ~confirm_force_kill
  /\ \E i \in DOMAIN answered : Resisted(answered[i])
OpensPrompt == ~confirm_kill /\ ~confirm_force_kill /\ Resistant # <<>>

DrainKillResults ==
  /\ Drain
  /\ confirm_force_kill' = (confirm_force_kill \/ OpensPrompt)
  /\ pending_force_kill_pids' =
       IF OpensPrompt THEN Ascending(Range(Resistant)) ELSE Resistant

CustomEvent ==
  /\ Refresh
  /\ DrainKillResults
  /\ UNCHANGED <<filter, sorting, theming, show_help, term, exiting, prompted>>

----------------------------------------------------------------------------
(* The keys.  An upper-case letter that does the same is the same key. *)

\* What takes the keys, first come first.
Mode ==
  IF confirm_force_kill THEN "force" ELSE IF confirm_kill THEN "term"
  ELSE IF filtering THEN "filter" ELSE IF theme_menu THEN "theme"
  ELSE IF sort_menu THEN "sort" ELSE "table"

Pressed(keys, mode) == life = "open" /\ Mode = mode /\ keys \cap Keys # {}

\* The bound on the kills: a dispatch of pids would exceed it.
Outstanding ==
  MapThenSumSet(LAMBDA r : asked[r], Requests) + Len(answered) + Len(pending_force_kill_pids)

\* confirm_force_kill_
ConfirmForce ==
  /\ Pressed({"y"}, "force")
  /\ Ask(pending_force_kill_pids, TRUE)
  /\ confirm_force_kill' = FALSE
  /\ pending_force_kill_pids' = <<>>
  /\ UNCHANGED <<unseen, table, filter, sorting, theming, show_help, term, exiting, prompted>>

DeclineForce ==
  /\ Pressed({"n", "escape"}, "force")
  /\ confirm_force_kill' = FALSE
  /\ pending_force_kill_pids' = <<>>
  /\ UNCHANGED <<unseen, table, filter, sorting, theming, show_help, term, exiting, prompted,
                 serviceVars>>

\* confirm_kill_
ConfirmKill ==
  /\ Pressed({"y"}, "term")
  /\ Outstanding + Len(pending_kill_pids) <= MaxOutstanding
  /\ Ask(pending_kill_pids, FALSE)
  /\ selected_pids' = selected_pids \ Range(pending_kill_pids)
  /\ confirm_kill' = FALSE
  /\ pending_kill_pids' = <<>>
  /\ UNCHANGED <<unseen, has_snapshot, entries, groups, selected_row, expanded_pid, filter,
                 sorting, theming, show_help, force, exiting, prompted>>

DeclineKill ==
  /\ Pressed({"n", "escape"}, "term")
  /\ confirm_kill' = FALSE
  /\ pending_kill_pids' = <<>>
  /\ UNCHANGED <<unseen, table, filter, sorting, theming, show_help, force, exiting, prompted,
                 serviceVars>>

\* filtering_
unfiltered == <<unseen, sorting, theming, show_help, term, force, exiting, prompted, serviceVars>>

ApplyFilter ==
  /\ Pressed({"return"}, "filter")
  /\ filtering' = FALSE
  /\ UNCHANGED <<filter_query, table, unfiltered>>

AbandonFilter ==
  /\ Pressed({"escape"}, "filter")
  /\ filtering' = FALSE
  /\ SetQuery(<<>>)
  /\ UNCHANGED unfiltered

EraseCharacter ==
  /\ Pressed({"backspace"}, "filter")
  /\ filter_query # <<>>
  /\ SetQuery(Front(filter_query))
  /\ UNCHANGED <<filtering, unfiltered>>

TypeCharacter(c) ==
  /\ Pressed({c}, "filter")
  /\ Len(filter_query) < MaxQuery
  /\ SetQuery(Append(filter_query, c))
  /\ UNCHANGED <<filtering, unfiltered>>

----------------------------------------------------------------------------
\* The arrow keys, in rows 0 to count - 1.  The slip: up is not stopped at 0.
MovedSlip(row, count, key) == IF key = "up" THEN row - 1 ELSE Min({row + 1, count - 1})
Moved(row, count, key) ==
  IF key = "up" THEN Max({0, row - 1}) ELSE Min({row + 1, count - 1})

\* theme_menu_
unthemed == <<unseen, table, filter, sorting, show_help, term, force, exiting, prompted,
              serviceVars>>

MoveTheme(key) ==
  /\ Pressed({key}, "theme")
  /\ theme_menu_row' = Moved(theme_menu_row, Len(Themes), key)
  /\ UNCHANGED <<theme_menu, active_theme, unthemed>>

ApplyTheme ==
  /\ Pressed({"return"}, "theme")
  /\ active_theme' = Themes[theme_menu_row + 1]
  /\ theme_menu' = FALSE
  /\ UNCHANGED <<theme_menu_row, unthemed>>

CloseThemeMenu ==
  /\ Pressed({"escape", "t"}, "theme")
  /\ theme_menu' = FALSE
  /\ UNCHANGED <<theme_menu_row, active_theme, unthemed>>

\* sort_menu_
unsorted == <<unseen, has_snapshot, entries, selected_pids, expanded_pid, filter, theming,
              show_help, term, force, exiting, prompted, serviceVars>>

MoveSort(key) ==
  /\ Pressed({key}, "sort")
  /\ sort_menu_row' = Moved(sort_menu_row, Len(SortModes), key)
  /\ UNCHANGED <<sort_menu, sort_mode, groups, selected_row, unsorted>>

ApplySortMode ==
  /\ Pressed({"return"}, "sort")
  /\ sort_mode' = SortModes[sort_menu_row + 1]
  /\ groups' \in SortGroups(entries, sort_mode', Range(groups))
  /\ selected_row' = IF groups = <<>> THEN selected_row ELSE Row(groups', Focused)
  /\ sort_menu' = FALSE
  /\ UNCHANGED <<sort_menu_row, unsorted>>

CloseSortMenu ==
  /\ Pressed({"escape", "s"}, "sort")
  /\ sort_menu' = FALSE
  /\ UNCHANGED <<sort_menu_row, sort_mode, groups, selected_row, unsorted>>

----------------------------------------------------------------------------
\* The table itself

MoveFocus(key) ==
  /\ Pressed({key}, "table")
  /\ key = "down" => groups # <<>>
  /\ selected_row' = Moved(selected_row, Len(groups), key)
  /\ UNCHANGED <<unseen, has_snapshot, entries, groups, selected_pids, expanded_pid, ui,
                 serviceVars>>

ToggleExpanded ==
  /\ Pressed({"return"}, "table")
  /\ groups # <<>>
  /\ expanded_pid' = IF expanded_pid = Focused THEN NoPid ELSE Focused
  /\ UNCHANGED <<unseen, has_snapshot, entries, groups, selected_row, selected_pids, ui,
                 serviceVars>>

ToggleSelected ==
  /\ Pressed({"space"}, "table")
  /\ groups # <<>>
  /\ selected_pids' = SymDiff(selected_pids, {Focused})
  /\ UNCHANGED <<unseen, has_snapshot, entries, groups, selected_row, expanded_pid, ui,
                 serviceVars>>

\* The prompt opens for the marked pids, if there are any.  The slip: it opens
\* in any case.
HasMarksSlip == TRUE
HasMarks == selected_pids # {}

AskToKill ==
  /\ Pressed({"k"}, "table")
  /\ pending_kill_pids' = Ascending(selected_pids)
  /\ confirm_kill' = HasMarks
  /\ UNCHANGED <<unseen, table, filter, sorting, theming, show_help, force, exiting, prompted,
                 serviceVars>>

OpenSortMenu ==
  /\ Pressed({"s"}, "table")
  /\ sort_menu' = TRUE
  /\ \E i \in DOMAIN SortModes : SortModes[i] = sort_mode /\ sort_menu_row' = i - 1
  /\ UNCHANGED <<sort_mode, groups, selected_row, unsorted>>

OpenThemeMenu ==
  /\ Pressed({"t"}, "table")
  /\ theme_menu' = TRUE
  /\ \E i \in DOMAIN Themes : Themes[i] = active_theme /\ theme_menu_row' = i - 1
  /\ UNCHANGED <<active_theme, unthemed>>

StartFilter ==
  /\ Pressed({"/"}, "table")
  /\ filtering' = TRUE
  /\ SetQuery(<<>>)
  /\ UNCHANGED unfiltered

ToggleHelp ==
  /\ Pressed({"?"}, "table")
  /\ show_help' = ~show_help
  /\ UNCHANGED <<unseen, table, filter, sorting, theming, term, force, exiting, prompted,
                 serviceVars>>

\* screen.Exit ends the loop after the events that are already queued.
Quit(key) ==
  /\ Pressed({key}, "table")
  /\ exiting' = TRUE
  /\ UNCHANGED <<unseen, table, filter, sorting, theming, show_help, term, force, prompted,
                 serviceVars>>

----------------------------------------------------------------------------
(* The loop and the other threads *)

\* The pids the SIGKILL prompt of the next frame names.
ForcePrompt == IF confirm_force_kill THEN Range(pending_force_kill_pids) ELSE {}

Render ==
  /\ life = "open"
  /\ prompted # ForcePrompt
  /\ prompted' = ForcePrompt
  /\ UNCHANGED <<unseen, table, filter, sorting, theming, show_help, term, force, exiting,
                 serviceVars>>

\* The loop returns, Run stops the pipeline, and ~LiveTable begins with the
\* killer.
EndLoop ==
  /\ exiting
  /\ Close
  /\ UNCHANGED <<unseen, table, ui>>

\* The pipeline publishes, whether or not the last update was seen.
Publish(s) ==
  /\ life = "open"
  /\ unseen' = <<s>>
  /\ UNCHANGED <<table, ui, serviceVars>>

KillerAnswers == AnswerSome /\ UNCHANGED <<unseen, table, ui>>
KillerCloses == Closed /\ UNCHANGED <<unseen, table, ui>>

----------------------------------------------------------------------------
FilterKey ==
  \/ ApplyFilter
  \/ AbandonFilter
  \/ EraseCharacter
  \/ \E c \in Characters : TypeCharacter(c)

MenuKey ==
  \/ \E key \in {"up", "down"} : MoveTheme(key) \/ MoveSort(key)
  \/ ApplyTheme
  \/ CloseThemeMenu
  \/ ApplySortMode
  \/ CloseSortMenu

PromptKey ==
  \/ ConfirmForce
  \/ DeclineForce
  \/ ConfirmKill
  \/ DeclineKill

TableKey ==
  \/ \E key \in {"up", "down"} : MoveFocus(key)
  \/ ToggleExpanded
  \/ ToggleSelected
  \/ AskToKill
  \/ OpenSortMenu
  \/ OpenThemeMenu
  \/ StartFilter
  \/ ToggleHelp
  \/ \E key \in {"q", "escape"} : Quit(key)

Terminated == life = "closed" /\ UNCHANGED vars

Next ==
  \/ CustomEvent
  \/ Render
  \/ PromptKey
  \/ FilterKey
  \/ MenuKey
  \/ TableKey
  \/ EndLoop
  \/ \E s \in Snapshots : Publish(s)
  \/ KillerAnswers
  \/ KillerCloses
  \/ Terminated

\* The threads keep running; the user need not press any key.
Spec ==
  /\ Init
  /\ [][Next]_vars
  /\ WF_vars(CustomEvent)
  /\ WF_vars(Render)
  /\ WF_vars(EndLoop)
  /\ WF_vars(KillerAnswers)
  /\ WF_vars(KillerCloses)

----------------------------------------------------------------------------
(* Properties *)

TypeOK ==
  /\ unseen \in {<<>>} \cup {<<s>> : s \in Snapshots}
  /\ has_snapshot \in BOOLEAN
  /\ entries \in Snapshots \cup {<<>>}
  /\ groups \in Seq(Pids)
  /\ selected_row \in Nat
  /\ selected_pids \in SUBSET Pids
  /\ expanded_pid \in Pids \cup {NoPid}
  /\ {filtering, sort_menu, theme_menu, show_help, confirm_kill, confirm_force_kill, exiting}
       \subseteq BOOLEAN
  /\ filter_query \in Seq(Characters)
  /\ sort_menu_row \in 0 .. Len(SortModes) - 1
  /\ sort_mode \in Range(SortModes)
  /\ theme_menu_row \in 0 .. Len(Themes) - 1
  /\ active_theme \in Range(Themes)
  /\ pending_kill_pids \in Seq(Pids)
  /\ pending_force_kill_pids \in Seq(Pids)
  /\ prompted \in SUBSET Pids
  /\ ServiceTypeOK

\* groups_[selected_row_] exists whenever the code reads it.
FocusInRange == selected_row < Max({1, Len(groups)})

\* Filtering, sorting and new snapshots leave the focus on its process while
\* that is shown.  Nothing is said of steps that leave the rows as they are,
\* those of the arrow keys among them.
FocusFollowsProcess ==
  [][groups' # groups /\ Focused \in Range(groups') => Focused' = Focused]_vars

\* What is shown is the latest snapshot taken, sorted and filtered as the
\* menus and the footer say, whatever was pressed in which order.
GroupsAreCurrent == groups \in BuildGroups(entries, sort_mode, filter_query)

\* Marks and the expanded process never outlive the process's sockets, so
\* that a kill is never asked for a process not in the snapshot when k is hit.
MarksAreListed == selected_pids \cup ({expanded_pid} \ {NoPid}) \subseteq DOMAIN entries

\* A mark is lost only to the user or because the process has no sockets any
\* more: filters and sorting do not drop it.
MarksSurvive ==
  [][\A p \in selected_pids \ selected_pids' :
       p \notin DOMAIN entries' \/ ToggleSelected \/ ConfirmKill]_vars

\* Two modes are never open at once, except that the SIGKILL prompt may open
\* over the filter or a menu.
ModesExclusive ==
  /\ confirm_kill => ~(confirm_force_kill \/ filtering \/ theme_menu \/ sort_menu)
  /\ filtering => ~(theme_menu \/ sort_menu)
  /\ ~(theme_menu /\ sort_menu)

\* A prompt asks about something, and what is to be asked about SIGTERM is
\* being asked: y never dispatches nothing or what was declined.
PromptsAskAboutPending ==
  /\ confirm_kill <=> pending_kill_pids # <<>>
  /\ confirm_force_kill => pending_force_kill_pids # <<>>

\* A process that survived its SIGTERM is offered for SIGKILL, unless the
\* other prompt is in the way or the user quits.
ResistantIsOffered ==
  \A p \in Pids :
    (\E i \in DOMAIN answered : answered[i].pid = p /\ Resisted(answered[i]))
      \/ p \in Range(pending_force_kill_pids)
    ~> \/ confirm_force_kill /\ p \in Range(pending_force_kill_pids)
       \/ confirm_kill
       \/ exiting

\* "can terminate selected processes with confirmation" (README.md line 5):
\* SIGKILL goes to processes whose prompt the user could see.
ForceIsConfirmed == [][ConfirmForce => Range(pending_force_kill_pids) \subseteq prompted]_vars
=============================================================================
