SPECIFICATION FairSpec
CONSTANTS
  PipeCap = 2
  MaxData = 4
  MaxOutput = 3
  NoCode = NoCode
INVARIANTS OkIsComplete NothingLeft
PROPERTY RunEnds
