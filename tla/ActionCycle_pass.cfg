CONSTANTS
  o1 = o1
  c1 = c1
  c2 = c2
  a1 = a1
  a2 = a2
  Op = {o1}
  MaxSteps = 2
  MaxKills = 1
  Call = {c1, c2}
  Answer = {a1, a2}
  MaxProposals = 2
  MaxConcessions = 1
  MaxTries = 3
  MaxRevokes = 1
SPECIFICATION Spec
SYMMETRY Symmetry
INVARIANTS TypeOK EachYesOnce StopIsHonoured
PROPERTY CancelledIsTerminal
CHECK_DEADLOCK FALSE
