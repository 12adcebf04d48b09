SPECIFICATION FairPrintSpec
CONSTANTS
  Owners = {0, 1, 2, 3}
  Declares = {1, 2, 3}
  Eligible = {1, 2}
  Layers = {1, 2}
  Invoked <- MCInvoked
  NoGeometry <- MCNoGeometry
  Completions = {"FullSlice", "PreparationOnly", "PreparationVisual"}
  MaxDisposals = 2
INVARIANTS
  ConsumesReady
  NoPartialGcode
  LifecycleRecords
  NothingRetained
  EligibleRunsPrepared
PROPERTIES
  PrintEnds
