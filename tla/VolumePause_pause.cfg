CONSTANTS
  Api = {a1, a2}
  Copy = {v1, v2}
  Faults = {}
  MaxFailures = 1
  MaxRestarts = 1
SPECIFICATION FairSpec
INVARIANTS TypeOK StoppedIsMarked RecordedAtRest
PROPERTIES  ComesBack
CHECK_DEADLOCK FALSE
