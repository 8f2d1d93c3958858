SPECIFICATION Spec
CONSTANTS
  WorkerCount = 4
  GenerationMod = 2
  Listings <- MCListings
  Hidden <- MCHidden
  Reports <- MCReports
INVARIANTS
  TypeOK
  NoUnlockedConflict
  NoLostWakeup
  MergeIsComplete
  WorkersInStep
PROPERTIES
  DestroyReturns
  ImplementsScanner
