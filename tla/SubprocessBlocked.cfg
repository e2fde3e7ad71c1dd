\* Compilers that block on a full stderr while both error threads are in calls.
SPECIFICATION Spec
CONSTANTS
  MaxWorkers = 2
  MaxOutput = 0
  MaxErrors = 3
  MaxAnswer = 0
  MaxServers = 2
  Capacity = 1
  MayFail = {}
INVARIANTS
  NeverStuck
