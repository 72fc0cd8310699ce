SPECIFICATION Spec
CONSTANTS
  Products = 1
  GenericSysprep = FALSE
  MaxLevel = 2
  MaxCycles = 3
  MaxCrashes = 1
  MaxStartFailures = 0
  MaxUnlisted = 1
INVARIANT PublishedUpdated
CHECK_DEADLOCK FALSE
