SPECIFICATION FairSpec
CONSTANTS
  W = 5
  Plain = FALSE
  RowBytes = 30
  Docs <- Documents
  MaxIndent = 1
  MaxDigits = 1
INVARIANTS RowsFit TextFaithful RowsStandAlone WordsWhole LettersKept EmphasisCloses
PROPERTIES Printed
CHECK_DEADLOCK FALSE
