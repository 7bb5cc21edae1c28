CONSTANTS
    Ids = {"a", "b"}
    Items <- MCItems
    MaxItems = 3
    LastL1 = 5
    MaxRestarts = 1
    ResetMidBlock = FALSE
    TimeoutBlocks = 1
    HoloceneBlock = 4
    CanyonAt = 1
    FrameSize = 1
    MaxBankSize = 4
    MaxChannelSize = 4
    Batches <- MCBatchSets
    Honest <- ChainA
    MaxBatches = 3
    MaxPerChannel = 2
    MaxL1 = 6
    MaxL2 = 4
    MaxResets = 1
    L2FetchFails = TRUE
    GenesisOrigin = 2
    L1Start = 1
    L1Period = 3
    BlockTime = 2
    MaxDrift = 1
    SeqWindow = 2
    ChannelTimeout = 2
    DeltaTime = 1
    HoloceneTimes = {0, 14}
    JovianTime = 99
SPECIFICATION Spec
INVARIANT NoChannelLost
INVARIANT SafeJustified
INVARIANT KeepsUp
INVARIANT HonestChainDerived
