CONSTANTS
  NumChains = 3
  BlockTime <- MCBlockTime
  GenesisTime = 0
  InteropTime = 2
  ExpiryWindow = 1
  AnchorTime = 4
  Anchor <- MCAnchor
  Claimed = 7
  Messages <- MCMessages
  MaxSteps = 4
  Window = 8
  FirstRecorded <- MCFromUpgrade
SPECIFICATION Spec
INVARIANT DueChainsAdvance
PROPERTY ImplementsSTF
PROPERTY Completes
