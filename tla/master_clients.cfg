CONSTANTS
  NQ = 2
  w1 = w1
  w2 = w2
  Workers = {w1}
  NoWorker = NoWorker
  Priorities <- TwoPriorities
  UninitVersions <- Zero
  MaxVersion = 1
  Last = 1
  Unreadable <- None
  Faults <- QcFaults
  Aging = FALSE
SPECIFICATION FairSpec
INVARIANT NoSilentDrop
PROPERTY BusyWithoutSessionIsReleased
CHECK_DEADLOCK FALSE
