CONSTANTS
  s1 = s1
  s2 = s2
  v1 = v1
  v2 = v2
  old = old
  new = new
  own = own
  build = build
  NoSession = NoSession
  Session = {s1}
  Vm = {v1, v2}
  VhdFile = {own, build}
  Version = {old, new}
  Requests <- SequentialRequests
  WimSaveMode = TRUE
  PowerShellDirectMode = TRUE
  MaxRuns = 1
  MaxCrashes = 0
  MaxGuestFaults = 1
SPECIFICATION Spec
INVARIANTS
  ReadyMeansInstalled
CHECK_DEADLOCK FALSE
