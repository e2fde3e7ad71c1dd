SPECIFICATION FairSpec
CONSTANTS
  NRes = 3
  BufSize = 2
  Texts <- MCTexts
  Failing = {0}
  Size = 5
  MaxTries = 2
INVARIANTS
  TypeOK
  WindowInFile
  OffsetsConsistent
  NothingDropped
  SeparateMatchesFound
PROPERTIES
  ReportsForward
  TurnsAdvance
  ScanEnds
