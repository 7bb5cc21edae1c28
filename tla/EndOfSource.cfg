CONSTANTS
  NumChains = 3
  BlockTime <- MCBlockTime
  GenesisTime = 10
  InteropTime = 12
  ExpiryWindow = 1
  AnchorTime = 14
  Anchor <- MCAnchor
  Claimed = 17
  Messages <- MCMessages
  MaxSteps = 4
  Window = 8
  FirstRecorded <- MCFromUpgrade
SPECIFICATION Spec
INVARIANT DueChainsAdvance
