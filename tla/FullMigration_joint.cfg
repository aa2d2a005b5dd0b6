CONSTANTS
  Worker = {w1}
  Caller = Caller
  Forms <- SomeForms
  Faults = {}
  MaxFailures = 2
  MaxCrashes = 1
  MaxRequests = 2
  MaxCalls = 2
  MaxJobs = 1
SPECIFICATION FairSpec
INVARIANTS TypeOK NeverStranded AppFollowsData OneLegEach ClientsReachData 
PROPERTIES BridgeOpensAhead  CutoverEndsOrCanBeResumed
CHECK_DEADLOCK FALSE
