SPECIFICATION Spec
CONSTANTS
  Pids = {1, 2}
  Self = 2
  Batches = {}
  Names <- MCNames
  Snapshots <- MCOneProcess
  SortModes <- MCSortModes
  Themes <- MCThemes
  Keys = {"space", "k", "y"}
  MaxQuery = 0
  MaxOutstanding = 1
PROPERTIES
  ForceIsConfirmed
