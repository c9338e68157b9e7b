SPECIFICATION Spec
CONSTANTS
  Names <- AllNames
  Garbled = Garbled
  Parts <- NameParts
  ShortName <- NameShort
  Shown <- ShortShown
  Chksum <- ShortSum
  DirEntPerSec = 3
  RootSectors = 2
  Spc = 1
  LastCluster = 3
  MaxTail = 2
  Scenarios <- UndisturbedCalls
INVARIANTS TypeOK NoJunk NamesUnique
PROPERTIES IsNameSpace Answers ListingRight
