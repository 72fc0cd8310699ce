\* Three starts of the script for one product, killed twice at most, and
\* one VM that does not start at most.
SPECIFICATION FairSpec
CONSTANTS
  Products = 1
  GenericSysprep = FALSE
  MaxLevel = 2
  MaxCycles = 3
  MaxCrashes = 2
  MaxStartFailures = 1
  MaxUnlisted = 1
INVARIANTS
  TypeOK
  SealedUndisturbed
  UpdatedUndisturbed
  NoUpdateLost
PROPERTIES
  BaseOnlyGrows
  ImplementsStore
  HangsOnlyInVm
\* The operator need not start another run.
CHECK_DEADLOCK FALSE
