CONSTANTS
  NQ = 3
  w1 = w1
  w2 = w2
  Workers = {w1, w2}
  NoWorker = NoWorker
  Priorities <- OnePriority
  UninitVersions <- Zero
  MaxVersion = 0
  Last = 0
  Unreadable <- None
  Faults <- NoFaults
  Aging = FALSE
SPECIFICATION FairSpec
INVARIANT RunsEachInstructionOnce
 
 
INVARIANT IdleMeansFree
PROPERTY ImplementsCalmService
PROPERTY EveryQueryAnswered
CHECK_DEADLOCK FALSE
