SPECIFICATION Spec
CONSTANTS
  RamTop = 19
  PROG_BASE = 4
  Page = 4
  ParaSize = 2
  FCB_LEN = 2
  SECTOR_SIZE = 1
  REDIR_OBUF_LEN = 2
  BATCH_ARGS_RESERVE_LEN = 1
  ModSize = 2
  prog_fcb = 0
  ShellSizes = {3, 9}
  ProgSizes = {2, 12}
  Requests = {2, 60}
  Files = {f, g}
  Chars = {a, b}
  NUL = NUL
  NoRedir = NoRedir
  MaxText = 3
  MaxScreen = 1
  MaxFaults = 1
SYMMETRY Symmetric
INVARIANTS
  TypeOK
  HimemSafe
  VectorsMatch
PROPERTIES
  IsStreams
