SPECIFICATION Spec
CONSTANTS
  U32Max = 0
  Field = {0}
  None = None
  Controllers = {c1}
  Configs = {a}
  Factory = Factory
  Mixed = Mixed
  NoState = NoState
  ReconnectAttempts = 1
INVARIANT
  ForgetIsFinal
