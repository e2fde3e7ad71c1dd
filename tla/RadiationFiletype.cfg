\* A second :Radiate before the first worker has read the global.
SPECIFICATION Spec
CONSTANTS
  Modules = {"c", "cpp"}
  None = None
  MayFail = {}
  Defined <- MCDefined
  MayRaise = {}
  MaxRadiates = 2
  MaxCommands = 1
  MaxErrors = 0
  MaxDigests = 0
  ServerAtStart = TRUE
  ServerLater = FALSE
INVARIANT RoutineMatchesFiletype
CHECK_DEADLOCK FALSE
