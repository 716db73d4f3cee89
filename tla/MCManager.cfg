SPECIFICATION Spec
CONSTANTS
  Modules = {m1, m2}
  Commands = {c1, c2}
  HeartbeatTimeout = 2
  MaintenancePeriod = 1
  LogLimit = 1
  MaxEvents = 2
INVARIANTS TypeOK SilentHeardIsOffline OneLossTolerated LogAgrees
PROPERTY RunningShownOnline
