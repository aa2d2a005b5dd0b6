CONSTANTS
  Api = {a1, a2}
  Copy = {v1}
  Faults = {"long"}
  MaxFailures = 0
  MaxRestarts = 0
SPECIFICATION Spec
INVARIANT RecordedAtRest
CHECK_DEADLOCK FALSE
