SPECIFICATION Spec
CONSTANTS
  Threads = {main, wdt}
  Main = main
  UsedLevels = {1, 4}
  CurrentLevel = 1
  MaxQueue = 1
  Batch = 2
  MaxLogSize = 1
  MaxBackups = 2
  MaxMsgs = 3
  MaxCrashes = 1
INVARIANTS NoLostWakeup ShutdownFlushes RetainedSuffix
PROPERTIES ShutdownCompletes ImplementsAsyncLog
