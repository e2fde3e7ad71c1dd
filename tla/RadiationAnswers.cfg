\* An answer that comes too late is taken by the next query.
SPECIFICATION Spec
CONSTANTS
  Modules = {"c"}
  None = None
  MayFail = {}
  Defined <- MCDefined
  MayRaise = {}
  MaxRadiates = 2
  MaxCommands = 1
  MaxErrors = 0
  MaxDigests = 0
  ServerAtStart = FALSE
  ServerLater = FALSE
INVARIANT QueryAnswersMatch
CHECK_DEADLOCK FALSE
