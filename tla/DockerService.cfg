SPECIFICATION Spec
CONSTANTS
  Absent = Absent
  Partial = Partial
  Session = {s1, s2}
  MaxVersion = 2
  MaxRuns = 3
  MaxFaults = 1
INVARIANTS
  TypeOK
  UndisturbedEndsWell
  TogetherUp
PROPERTIES
  RepairsUndisturbed
  RunEnds
CHECK_DEADLOCK FALSE
