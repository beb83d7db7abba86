SPECIFICATION Spec
CONSTANTS
  DemosOf <- MCDemosOf
  FirstDevice = "xWR6843"
  SinglePort = {"xWRL6432"}
  FastDemos = {"Gesture"}
  NoCfgDemo = "Video Doorbell"
  FramesPerFile = 2
  ReplayLengths = {1, 2, 3}
  MaxClicks = 7
  MaxFrames = 4
  MaxFaults = 1
INVARIANTS RecordedIsKept ConnectionSound ReplayIsWhole
PROPERTIES RestartRestores
CHECK_DEADLOCK FALSE
