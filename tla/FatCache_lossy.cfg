SPECIFICATION Spec
CONSTANTS
  Slots = {"C", "D"}
  ShellSlot = "C"
  Vols = {"p", "q"}
  NoSlot = NoSlot
  NoVol = NoVol
  NoSec = NoSec
  LastCopy = 0
  LastCluster = 3
  MaxClust <- MCMaxClust
  Sectors = {0, 1}
  LoSec <- Fat16Lo
  HiSec <- Fat16Lo
  EocDigit = 15
  SetValues <- MCFreeOrEnd
  BootTable <- MCBootTable
  BootPresent = {"C", "D"}
  MaxReadFaults = 1
  MaxWriteFaults = 1
  MaxCrashes = 0
PROPERTIES CleanMeansWritten
