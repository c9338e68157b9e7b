SPECIFICATION Spec
CONSTANTS
  a = a
  b = b
  k = k
  l = l
  Files = {a, b}
  Fcbs = {k, l}
  NoFile = NoFile
  NoFcb = NoFcb
  SecSize = 1
  Spc = 1
  LastCluster = 3
  Bytes = {0, 1}
  MaxRequest = 2
  MaxMarks = 1
  MaxReadFaults = 1
  MaxWriteFaults = 1
  MaxCrashes = 1
INVARIANTS CrashSafe NoCrossLink
PROPERTIES IsByteFile
SYMMETRY Symmetric
CONSTRAINT Either
