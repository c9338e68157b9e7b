SPECIFICATION Spec
CONSTANTS
  KernBase = 4
  SectorSize = 4
  PageSize = 8
  Threshold = 2
  KrnLoad = 32
  KrnSectors = 2
  Top = 63
  PerLine = 3
  RelayLen = 3
  BootTables = {"slots", "drives"}
  MaxEdits = 1
  Sources <- MCSources
  Machines <- MCMachines
INVARIANTS
  MarginHolds
  LoadedAsLinked
  NothingElseWritten
CHECK_DEADLOCK FALSE
