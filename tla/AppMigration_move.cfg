CONSTANTS
  Worker = {w1}
  Caller = Caller
  Forms <- AllForms
  Faults = {}
  MaxFailures = 2
  MaxCrashes = 2
  MaxRequests = 2
  MaxAborts = 2
  MaxJobs = 1
SPECIFICATION FairSpec
INVARIANTS TypeOK Served VolumesHaveOneWriter
PROPERTIES  ServedVolumesAreKept KeepsPromise 
CHECK_DEADLOCK FALSE
