SPECIFICATION Spec
CONSTANTS
  ConfigLines = 3
  MaxCommands = 2
INVARIANTS ConfigFirst CleanExit
PROPERTIES ConfigCompletes SignalEnds HangUpNoticed
CHECK_DEADLOCK FALSE
