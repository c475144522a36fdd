CONSTANTS
  NQ = 2
  w1 = w1
  w2 = w2
  Workers = {w1, w2}
  NoWorker = NoWorker
  Priorities <- TwoPriorities
  UninitVersions <- Zero
  MaxVersion = 1
  Last = 1
  Unreadable <- None
  Faults <- CrashFaults
  Aging = FALSE
CONSTRAINT OneCrashAtMost
SPECIFICATION Spec
INVARIANT NoSkippedInstruction
 
INVARIANT StopsOnlyAfterTrouble
INVARIANT NoSilentDrop
INVARIANT ListedIsIndexed
PROPERTY ImplementsService
SYMMETRY WorkerSymmetry
CHECK_DEADLOCK FALSE
