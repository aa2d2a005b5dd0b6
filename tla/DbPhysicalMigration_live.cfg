CONSTANTS
  w1 = w1
  w2 = w2
  Worker <- OneWorker
  Operator = Operator
  CutoverModes = {"AUTO", "MANUAL"}
  Budgets <- AbortOrFailure
  LostReplies = FALSE
  PrepareFails = FALSE
  AbortAtStart = FALSE
  MaxJobs = 1
SPECIFICATION FairSpec
INVARIANTS SourceServesAgain CutoverIsHeld
PROPERTIES AbortIsFinal CutoverSettles
CHECK_DEADLOCK FALSE
