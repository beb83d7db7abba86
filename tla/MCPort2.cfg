SPECIFICATION Spec
CONSTANTS
  Magic <- MCMagic
  HeaderLen = 4
  TlvHeaderLen = 2
  Align = 2
  AccumSize = 13
  ReadMax = 4
  MaxHeatmap = 1
  MaxRange = 1
  Frames <- MCFrames
  Noises <- MCNoises
  LineMax = 14
  MaxLosses = 1
INVARIANTS FramesSound InStep ChunkIndependence
PROPERTIES Recovers
