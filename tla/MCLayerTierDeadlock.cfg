SPECIFICATION FairTierSpec
CONSTANTS
  Workers = {w1, w2, w3}
  NLayers = 3
  NModules = 2
  Selected <- MCSelected
  PoolSize <- MCPoolSize
  Batching = {2}
  Prepared = {1}
  NoWork <- MCNoWork
  Empty <- MCEmpty
CHECK_DEADLOCK FALSE
PROPERTIES
  TierEnds
