CONSTANTS
  Worker = {w1}
  Caller = Caller
  Forms <- SomeForms
  Faults = {"again"}
  MaxFailures = 0
  MaxCrashes = 1
  MaxRequests = 1
  MaxCalls = 0
  MaxJobs = 1
SPECIFICATION Spec
INVARIANT FailedIsRolledBack
CHECK_DEADLOCK FALSE
