CONSTANTS
  w1 = w1
  w2 = w2
  Worker <- OneWorker
  Operator = Operator
  CutoverModes = {"MANUAL"}
  Budgets <- Crashes
  LostReplies = TRUE
  PrepareFails = TRUE
  AbortAtStart = FALSE
  MaxJobs = 1
SPECIFICATION Spec
INVARIANTS TypeOK PromoteIsRecorded
PROPERTIES HandsOverOnce KeepsPromise
CHECK_DEADLOCK FALSE
