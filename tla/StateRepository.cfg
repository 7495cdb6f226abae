SPECIFICATION Spec
CONSTANTS
  OwnState = {s1, s2}
  BadState = {bad}
  NoFile = NoFile
  Torn = Torn
  Foreign = Foreign
  Oversize = Oversize
INVARIANTS
  NeverTorn
  SaveIsAllOrNothing
PROPERTY
  ImplementsStateStore
