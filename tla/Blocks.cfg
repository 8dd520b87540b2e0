SPECIFICATION FairSpec
CONSTANTS
  Half = 4
  BlockSize = 3
  FileSizes = {0, 1, 2, 3, 4, 5, 6, 7, 8, 9}
  MaxFiles = 3
  Unstable = TRUE
CHECK_DEADLOCK FALSE
INVARIANTS
  TypeOK
  InSync
  CopiesComplete
PROPERTY EveryFileCopied
