SPECIFICATION Spec
CONSTANTS
  TabCount = 2
  Units = {"torr", "bar"}
  DefaultUnit = "torr"
  Focusables <- Settable
  Points = 2
  MaxEvents = 4
  Gauges = {g1}
  RowTimeout = 1
INVARIANTS
  InputConserved
  CalibrationKept
PROPERTIES
  UnitsAgree
  PresenceFollows
