CONSTANTS
  MaxInstructions = 2
  Room = 3
  Faults = {"worker", "storage"}
CONSTRAINT DiesEarly
SPECIFICATION FairSpec
INVARIANT InStepAndAnswered
INVARIANT CutFrames
INVARIANT LosesStepOnlyBy
INVARIANT OutcomeMatchesStorage
 
CHECK_DEADLOCK FALSE
