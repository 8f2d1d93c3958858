SPECIFICATION Spec
CONSTANTS
  Pids = {1, 2}
  Self = 2
  Batches <- MCBatches
  WorkerCount = 2
  MaxRequests = 3
  MaxIncarnation = 1
INVARIANTS
  TypeOK
  EachRequestOnce
  NoLostWakeup
  ShutdownLosesNothing
