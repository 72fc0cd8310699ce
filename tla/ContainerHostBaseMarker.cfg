CONSTANTS
  s1 = s1
  s2 = s2
  v1 = v1
  v2 = v2
  old = old
  new = new
  own = own
  build = build
  NoSession = NoSession
  Session = {s1}
  Vm = {v1, v2}
  VhdFile = {own, build}
  Version = {old, new}
  Requests <- SequentialRequests
  WimSaveMode = TRUE
  PowerShellDirectMode = TRUE
  MaxRuns = 3
  MaxCrashes = 0
  MaxGuestFaults = 0
SPECIFICATION Spec
INVARIANTS
  BaseMarkerTruthful
CHECK_DEADLOCK FALSE
