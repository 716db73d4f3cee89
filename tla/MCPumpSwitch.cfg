SPECIFICATION Spec
CONSTANTS
  Modules = {"roughing_pump", "turbo_pump", "ion_gauge"}
  DebounceTicks = 2
  MaxMoves = 3
  MaxCommands = 2
  MaxFaults = 1
INVARIANTS TypeOK SwitchOverridesOlder NewestReportTrue
PROPERTIES CommandStands SwitchObeyed
