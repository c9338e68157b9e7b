SPECIFICATION Spec
CONSTANTS
  Names <- AllNames
  Garbled = Garbled
  Parts <- NameParts
  ShortName <- NameShort
  Shown <- ShortShown
  Chksum <- ShortSum
  DirEntPerSec = 3
  RootSectors = 2
  Spc = 1
  LastCluster = 2
  MaxTail = 1
  Scenarios <- RenamesAndAReadFault
PROPERTIES RenameKeeps
