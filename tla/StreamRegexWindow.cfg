SPECIFICATION Spec
CONSTANTS
  NRes = 1
  BufSize = 3
  Texts <- MCTexts
  Failing = {}
  Size = 4
  MaxTries = 2
INVARIANTS
  WindowExhausted
