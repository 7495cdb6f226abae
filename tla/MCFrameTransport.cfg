SPECIFICATION FairSpec
CONSTANTS
  Base = 4
  MaxPayload = 10
  Sizes = {0, 1, 2, 12}
  MaxFrames = 3
  Addresses = 2
  Window = 2
  OwnSizes = {3}
  MaxOwn = 2
  Settings <- SoundSettings
INVARIANTS
  ConnectIsAllOrNothing
  PayloadsAreFrames
PROPERTIES
  SendsReturn
  EveryFrameArrives
