\* Two sessions that want the same image, three runs in all; one crash.
CONSTANTS
  s1 = s1
  s2 = s2
  v1 = v1
  v2 = v2
  old = old
  new = new
  own = own
  build = build
  NoSession = NoSession
  Session = {s1, s2}
  Vm = {v1, v2}
  VhdFile = {own, build}
  Version = {old}
  Requests <- TwoSessionRequests
  WimSaveMode = TRUE
  PowerShellDirectMode = TRUE
  MaxRuns = 3
  MaxCrashes = 1
  MaxGuestFaults = 1
SPECIFICATION FairSpec
INVARIANTS
  LockInv
  BootMountExclusion
  CleanExit
  DiskInv
PROPERTIES
  ImplementsLifecycle
  HangsOnlyAt
\* The operator need not start another run.
CHECK_DEADLOCK FALSE
