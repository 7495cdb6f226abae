SPECIFICATION Spec
CONSTANTS
  None = None
  NoInstance = NoInstance
  NoState = NoState
  NoTarget = NoTarget
  NumberOf <- MCNumberOf
  Macs = {"m1", "m2"}
  Passed <- LastOption
  Files <- PackagedFiles
  Earlier <- MCEarlier
  Datagrams <- MCDatagrams
  SiteIds = {"site"}
  Attempts = 3
  Respawns = 1
  MaxQueue = 2
  MaxEdits = 1
INVARIANT HonorsEnabled
CHECK_DEADLOCK FALSE
