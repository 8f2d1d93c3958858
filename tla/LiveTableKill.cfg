SPECIFICATION Spec
CONSTANTS
  Pids = {1, 2}
  Self = 2
  Batches = {}
  Names <- MCNames
  Snapshots <- MCTwoProcesses
  SortModes <- MCSortModes
  Themes <- MCThemes
  Keys = {"escape", "space", "s", "t", "/", "k", "y"}
  MaxQuery = 0
  MaxOutstanding = 2
INVARIANTS
  PromptsAskAboutPending
PROPERTIES
  ResistantIsOffered
