SPECIFICATION WatchdogSpec
CONSTANTS
  Timeout = 2
  HoldOff = 6
  CheckGap = 1
  Pulse = 1
  MaxSet = 3
INVARIANTS CleanStop
PROPERTIES ResetJustified SpacedResets SilenceResets StopReturns
