SPECIFICATION Spec
CONSTANTS
  a = a
  k = k
  Files = {a}
  Fcbs = {k}
  NoFile = NoFile
  NoFcb = NoFcb
  SecSize = 2
  Spc = 2
  LastCluster = 3
  Bytes = {0, 1}
  MaxRequest = 2
  MaxMarks = 1
  MaxReadFaults = 1
  MaxWriteFaults = 0
  MaxCrashes = 0
INVARIANTS TypeOK CursorOK NoLostClusters
PROPERTIES IsByteFile CallsReturn
