SPECIFICATION SessionSpec
CONSTANTS
  Directories <- Asked
  NoDirectory <- Nothing
  Valid <- There
  NameLength <- Lengths
  BlockSizes = {1, 3}
  TextLength = 3
  WrongLength = 6
  MaxLength = 12
  DefaultDir <- HomeUsers
  FilePaths <- Files
CHECK_DEADLOCK FALSE
INVARIANTS
  TypeOK
  AgreeBeforeScan
  CopiesOnlyConfirmed
  PathTypeOK
  RightPlace
  ParentsFirst
PROPERTY ValidRequestsServed
