SPECIFICATION Spec
CONSTANTS
  Jobs <- MCJobs
  ChunkSize = 240
  MaxFileSize = 1000
  HelloReads = 2
  Versions = {1, 8}
INVARIANTS VerdictIsDevices StoredIfReported CancelStops
PROPERTIES FlashEnds
CHECK_DEADLOCK FALSE
