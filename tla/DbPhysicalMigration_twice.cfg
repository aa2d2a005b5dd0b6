CONSTANTS
  w1 = w1
  w2 = w2
  Worker <- TwoWorkers
  Operator = Operator
  CutoverModes = {"MANUAL"}
  Budgets <- Requests
  LostReplies = FALSE
  PrepareFails = FALSE
  AbortAtStart = FALSE
  MaxJobs = 1
SPECIFICATION Spec
PROPERTY HandsOverOnce
CHECK_DEADLOCK FALSE
