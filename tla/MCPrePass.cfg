CONSTANT ModuleOrder <- MCOrder
SPECIFICATION Spec
INVARIANTS
  PlannedFromFinal
  HostChainWhole
  NoOutputLost
  BracketsBalanced
