SPECIFICATION Spec
CONSTANTS
  Demos = {"labels", "heights", "x843", "x432"}
  Ids = {0, 1}
  TagLen = 3
  MaxUnknown = 1
  HeightLen = 3
  ShowFrames = 3
  Heights = {1, 2}
  Threshold = 6
  MaxDone = 2
  Kinds = {0, 1, 2}
  Continuing = {2}
  Needed <- MCNeeded
  Window = 3
  Every = 2
  PlotDelay = 3
  MaxFrame = 6
INVARIANTS LabelsHaveEvidence  GesturesConfirmed DrawerIsSafe
CHECK_DEADLOCK FALSE
