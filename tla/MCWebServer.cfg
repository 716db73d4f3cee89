SPECIFICATION Spec
CONSTANTS
  gauge = gauge
  pump = pump
  Modules = {gauge, pump}
  Gauge = gauge
  QueueSize = 3
  WireSize = 1
  ServerLimit = 3
  ClientLimit = 2
  MaxUpdates = 4
  MaxBreaks = 2
INVARIANTS
  ViewCurrent
  HistoryTrue
CHECK_DEADLOCK FALSE
