CONSTANTS
  NQ = 2
  w1 = w1
  w2 = w2
  Workers = {w1, w2}
  NoWorker = NoWorker
  Priorities <- OnePriority
  UninitVersions <- Zero
  MaxVersion = 0
  Last = 1
  Unreadable <- None
  Faults <- CrashFaults
SPECIFICATION Spec
INVARIANT TypeOK
INVARIANT HandedOutOnce
INVARIANT NoSilentDrop
 
CHECK_DEADLOCK FALSE
