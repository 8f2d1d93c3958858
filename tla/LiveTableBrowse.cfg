SPECIFICATION Spec
CONSTANTS
  Pids = {1, 2, 3}
  Self = 3
  Batches = {}
  Names <- MCNames
  Snapshots <- MCSnapshots
  SortModes <- MCSortModes
  Themes <- MCThemes
  Keys = {"up", "down", "return", "escape", "backspace", "space", "s", "/", "t", "?"}
  MaxQuery = 1
  MaxOutstanding = 0
INVARIANTS
  TypeOK
  FocusInRange
  GroupsAreCurrent
  MarksAreListed
PROPERTIES
  FocusFollowsProcess
  MarksSurvive
