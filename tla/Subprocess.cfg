SPECIFICATION FairSpec
CONSTANTS
  MaxWorkers = 2
  MaxOutput = 2
  MaxErrors = 1
  MaxAnswer = 1
  MaxServers = 1
  Capacity = 1
  MayFail = {"pipe", "fork", "exec"}
INVARIANTS
  TypeOK
  EndMeansAllRead
  DescriptorsAccounted
  StatusIsOwn
  OnlyCompilersLeft
PROPERTIES
  EveryCallReturns
