CONSTANTS
  NQ = 2
  w1 = w1
  w2 = w2
  Workers = {w1}
  NoWorker = NoWorker
  Priorities <- TwoPriorities
  UninitVersions <- Zero
  MaxVersion = 1
  Last = 1
  Unreadable <- None
  Faults <- NoFaults
  Aging = FALSE
SPECIFICATION Spec
INVARIANT SuccessMeansEnd
CHECK_DEADLOCK FALSE
