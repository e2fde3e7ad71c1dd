\* Who waits for whom, before and after Vim gets its server.  Deadlock is not
\* checked: a digest before any radiate kills Vim.
SPECIFICATION FairSpec
CONSTANTS
  Modules = {"test"}
  None = None
  MayFail = {}
  Defined <- MCDefined
  MayRaise = {"command", "query", "error"}
  MaxRadiates = 2
  MaxCommands = 1
  MaxErrors = 0
  MaxDigests = 1
  ServerAtStart = FALSE
  ServerLater = TRUE
PROPERTIES DigestReturns WorkersEnd
CHECK_DEADLOCK FALSE
