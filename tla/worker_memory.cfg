CONSTANTS
  f1 = f1
  f2 = f2
  d1 = d1
  d2 = d2
  FileTags = {f1}
  LastPage = 2
  Marcos = 2
  Data = {d1}
  Initial = Initial
  Zeros = Zeros
  Garbage = Garbage
  NoBlock = NoBlock
  NoPage = NoPage
  NoFile = NoFile
  NoData = NoData
SPECIFICATION Spec
INVARIANT TypeOK
INVARIANT FramesMatchPages
 
 
 
CHECK_DEADLOCK FALSE
