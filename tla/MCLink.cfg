SPECIFICATION Spec
CONSTANTS
  Clients = {c1, c2}
  NoClient = none
  Char = {"R", "E"}
  Eol = "eol"
  Nul = "nul"
  Reset <- MCReset
  CmdBufSize = 4
  ReadMax = 4
  MaxTyped = 5
INVARIANTS SoleAuthor CommandsAreLines RadarReadsCommands
ACTION_CONSTRAINT ActInTime
SYMMETRY Sym
