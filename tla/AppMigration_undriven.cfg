CONSTANTS
  Worker = {w1}
  Caller = Caller
  Forms <- AutoVolume
  Faults = {"early"}
  MaxFailures = 0
  MaxCrashes = 1
  MaxRequests = 0
  MaxAborts = 0
  MaxJobs = 1
SPECIFICATION Spec
INVARIANT InterruptedIsQueuedAgain
CHECK_DEADLOCK FALSE
