SPECIFICATION FairSpec
CONSTANTS
  U32Max = 1
  Field <- MCField
  None = None
  Controllers = {c1}
  Configs = {a}
  Factory = Factory
  Mixed = Mixed
  NoState = NoState
  ReconnectAttempts = 2
INVARIANTS
  TypeOK
  PersistedWasAgreed
  DiskTracksSession
  AckedConfigIsRunning
  ClearedStaysCleared
PROPERTIES
  FollowsLifecycle
  StopIsHonoured
  AlwaysManagedAgain
