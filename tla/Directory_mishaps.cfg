SPECIFICATION Spec
CONSTANTS
  Names <- AllNames
  Garbled = Garbled
  Parts <- NameParts
  ShortName <- NameShort
  Shown <- ShortShown
  Chksum <- ShortSum
  DirEntPerSec = 2
  RootSectors = 2
  Spc = 2
  LastCluster = 3
  MaxTail = 1
  Scenarios <- Mishaps
INVARIANTS DirsSafe
PROPERTIES IsNameSpace CallsReturn
