SPECIFICATION Spec
CONSTANTS
  Pids = {1, 2}
  Self = 2
  Batches <- MCBatches
  WorkerCount = 1
  MaxRequests = 1
  MaxIncarnation = 1
PROPERTIES
  StillRunningIsTrue
