SPECIFICATION Spec
CONSTANTS
  Base = 4
  MaxPayload = 10
  Sizes = {1, 2}
  MaxFrames = 4
  Addresses = 2
  Window = 2
  OwnSizes = {3}
  MaxOwn = 2
  Settings <- StallingSettings
INVARIANT
  PayloadsAreFrames
