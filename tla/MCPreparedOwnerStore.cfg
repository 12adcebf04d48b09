SPECIFICATION Spec
CONSTANTS
  Threads = {t1, t2}
  MaxOwners = 2
  Names = {"a", "b"}
  Lens = {1, 2}
  Views = {v}
  Undeclared = u
  Identities = {i1, i2, i3}
  U64Max = 3
CONSTRAINT SecondOwnerBare
SYMMETRY StoreSymmetry
INVARIANTS
  GuardBalance
  PublishedWhole
  HandleFaithful
  StaleWriterPowerless
  InvocationRestored
  AccountingExact
PROPERTIES
  PublishedImmutable
  ImplementsAuthority
