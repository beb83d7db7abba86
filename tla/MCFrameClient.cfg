SPECIFICATION Spec
CONSTANTS
  Kinds = {"claude", "client", "tcp", "udp"}
  Streams <- MCStreams
  PacketSizes = {6}
  ReadSizes = {5}
  Configs <- MCConfigs
  MaxConnects = 2
  MaxFaults = 1
INVARIANTS InStep ReadAtOnce PlotsAreRadars
PROPERTIES StopEnds
CHECK_DEADLOCK FALSE
