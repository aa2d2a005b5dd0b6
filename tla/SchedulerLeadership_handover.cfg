CONSTANTS
  c1 = c1
  c2 = c2
  Copy <- MCCopy
  NoCopy = NoCopy
  MaxFaults = 0
  MaxRuns = 1
  MaxDepth = 2
SPECIFICATION Spec
INVARIANT OneCopyRunsTheWork
