\* Two files, of one type or of two, in a Vim that has no server at first.
\* It may really stop: a digest before any radiate kills Vim.
SPECIFICATION Spec
CONSTANTS
  Modules = {"c", "test"}
  None = None
  MayFail = {}
  Defined <- MCDefined
  MayRaise = {"command", "query", "error"}
  MaxRadiates = 2
  MaxCommands = 1
  MaxErrors = 1
  MaxDigests = 0
  ServerAtStart = FALSE
  ServerLater = TRUE
INVARIANTS TypeOK CommandsConserved AnswersReachAskers SequentialClean
CHECK_DEADLOCK FALSE
