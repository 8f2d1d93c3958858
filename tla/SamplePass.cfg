SPECIFICATION Spec
CONSTANTS
  Pids = {1}
  RefreshInterval = 3
  MaxLsof = 2
  Horizon = 5
  MaxCpu = 4
  MaxDelay = 1
INVARIANTS
  TypeOK
PROPERTIES
  FallbackIsRecent
  FallbackIsComplete
  SharesAreEarned
  OneRowPerProcess
