CONSTANTS
  c1 = c1
  c2 = c2
  Copy <- MCCopy
  NoCopy = NoCopy
  MaxFaults = 1
  MaxRuns = 1
  MaxDepth = 2
SPECIFICATION FairSpec
INVARIANTS TypeOK SoleLeader LockNotStranded CleanHandover
PROPERTIES TakeOver StopCompletes
