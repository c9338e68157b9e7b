SPECIFICATION Spec
CONSTANTS
  Slots = {"C", "D"}
  ShellSlot = "C"
  Vols = {"p", "q"}
  NoSlot = NoSlot
  NoVol = NoVol
  NoSec = NoSec
  LastCopy = 1
  LastCluster = 3
  MaxClust <- MCMaxClust
  Sectors = {0, 1}
  LoSec <- Fat12Lo
  HiSec <- Fat12Hi
  EocDigit = 15
  SetValues <- MCFreeOrEnd
  BootTable <- MCBootTable
  BootPresent = {"C", "D"}
  MaxReadFaults = 1
  MaxWriteFaults = 1
  MaxCrashes = 1
INVARIANTS TypeOK CacheCoherent ReadsSeeWrites FullMeansFull CopiesAgree
PROPERTIES IsFatStore CallsReturn
CONSTRAINT OneMishap
