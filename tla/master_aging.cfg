CONSTANTS
  NQ = 2
  w1 = w1
  w2 = w2
  Workers = {w1}
  NoWorker = NoWorker
  Priorities <- OnlyFour
  UninitVersions <- Zero
  MaxVersion = 2
  Last = 0
  Unreadable <- None
  Faults <- NoFaults
  Aging = TRUE
CONSTRAINT Contended
SPECIFICATION Spec
INVARIANT TypeOK
INVARIANT OneAnswerPerEviction
INVARIANT EvictsOnlyWorse
PROPERTY PriorityOnlyImproves
CHECK_DEADLOCK FALSE
