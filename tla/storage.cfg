CONSTANTS
  w1 = w1
  w2 = w2
  base = base
  ft1 = ft1
  ft2 = ft2
  d1 = d1
  d2 = d2
  Workers = {w1, w2}
  FileTags = {base, ft1, ft2}
  BASE = base
  MaxPages = 2
  NumBlocks = 4
  Data = {d1, d2}
  Initial = Initial
  Blank = Blank
  Torn = Torn
  MaxOps = 5
  NoWorker = NoWorker
  NoBlock = NoBlock
  NoMeta = NoMeta
  NoData = NoData
SYMMETRY Symmetry
SPECIFICATION Spec
INVARIANT TypeOK
 
 
INVARIANT MetadataMatchesLinks
INVARIANT LinkedBlocksAreUsed
INVARIANT ContentsAsRequested
CHECK_DEADLOCK FALSE
