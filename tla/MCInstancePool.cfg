SPECIFICATION FairPoolSpec
CONSTANTS
  Clients = {c1, c2, c3}
  MaxParallelism = 3
  MaxCalls = 2
INVARIANTS
  LeaseExclusive
  SerializedAlone
  NoLostWakeup
PROPERTIES
  AcquireTerminates
