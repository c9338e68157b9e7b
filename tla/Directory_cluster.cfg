SPECIFICATION Spec
CONSTANTS
  Names <- AllNames
  Garbled = Garbled
  Parts <- NameParts
  ShortName <- NameShort
  Shown <- ShortShown
  Chksum <- ShortSum
  DirEntPerSec = 4
  RootSectors = 1
  Spc = 1
  LastCluster = 3
  MaxTail = 1
  Scenarios <- LongNamesInADirectory
INVARIANTS ShortNamesUnique
