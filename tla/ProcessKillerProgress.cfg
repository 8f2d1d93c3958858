SPECIFICATION Spec
CONSTANTS
  Pids = {1, 2}
  Self = 2
  Batches <- MCBatches
  WorkerCount = 2
  MaxRequests = 2
  MaxIncarnation = 2
INVARIANTS
  SuccessIsTrue
PROPERTIES
  RequestsAnswered
  ImplementsKillService
