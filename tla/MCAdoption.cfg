SPECIFICATION FairSpec
CONSTANTS
  U32Max = 1
  Field <- MCField
  None = None
  MaxSkipped = 2
  MaxNoise = 3
INVARIANTS
  SyncIsMutual
  BoundedReceives
PROPERTIES
  HandshakeEnds
  Adopts
