SPECIFICATION FairSpec
CONSTANTS
  None = None
  NoInstance = NoInstance
  NoState = NoState
  NoTarget = NoTarget
  NumberOf <- MCNumberOf
  Macs = {"m1", "m2"}
  Passed <- InitOptions
  Files <- MCFiles
  Earlier <- MCEarlier
  Datagrams <- MCDatagrams
  SiteIds = {"site"}
  Attempts = 3
  Respawns = 1
  MaxQueue = 2
  MaxEdits = 1
INVARIANTS RunsAsStarted ContactsConfigured TargetFromOneDatagram
PROPERTIES SettingsCatchUp OffersAreTried
CHECK_DEADLOCK FALSE
