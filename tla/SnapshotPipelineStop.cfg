SPECIFICATION Spec
CONSTANTS
  EntryKeys = {"http", "dns"}
  Groups <- MCGroups
INVARIANTS
  TypeOK
  StoppedMeansJoined
PROPERTIES
  QuietAfterStop
  UpdatesChain
  StopReturns
  ReadersCatchUp
