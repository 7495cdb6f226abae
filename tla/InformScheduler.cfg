SPECIFICATION Spec
CONSTANTS
  Interval = 3
  RecvTimeout = 2
  MaxParts = 2
  SeqCount = 8
  LastSeq = 5
  StartClock = 2
  MaxTime = 14
  MaxSteps = 2
INVARIANTS
  TypeOK
  InformsKeepComing
PROPERTY
  InformsAreSpaced
