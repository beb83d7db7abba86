SPECIFICATION UartSpec
CONSTANTS
  UartStreams <- MCStreams
  ChunkSizes = {3, 10}
  MaxStalls = 1
  MaxLost = 1
INVARIANTS WholeFramesDecode NothingSkipped
CHECK_DEADLOCK FALSE
