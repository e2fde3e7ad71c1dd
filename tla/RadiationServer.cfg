\* Two files in a Vim that has a server from the start.  Deadlock is not
\* checked: a digest before any radiate kills Vim.
SPECIFICATION Spec
CONSTANTS
  Modules = {"c", "cpp"}
  None = None
  MayFail = {"c"}
  Defined <- MCDefined
  MayRaise = {"command", "query", "error"}
  MaxRadiates = 2
  MaxCommands = 1
  MaxErrors = 1
  MaxDigests = 1
  ServerAtStart = TRUE
  ServerLater = FALSE
INVARIANTS CommandsConserved ServerDrains
CHECK_DEADLOCK FALSE
