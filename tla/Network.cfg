SPECIFICATION Spec
CONSTANTS
    Blocks <- MCBlocks
    OwnBlocks <- MCOwnBlocks
    Height <- MCHeight
    Timestamp <- MCTimestamp
    Keys <- MCKeys
    InitialSigner = "old"
    SignerKind = "remote"
    OwnKey = "old"
    Past = 1
    Future = 0
    CacheSize = 3
    MaxBlocksToKeep = 1
    EngineCap = 1
    MaxClock = 4
    MaxMessages = 4
    MaxUpdates = 1
    MaxOwn = 1
    Peers <- MCPeers
    BootNodes <- MCBootNodes
    BootEnodes <- MCBootEnodes
    ValidEnr <- MCValidEnr
    Subnet <- MCSubnet
    Redialing = {1}
    DialPeriod = 1
    MaxPeers = 1
    Monitoring = TRUE
    MaxInstant = 2
    MaxEvents = 2
    MaxDials = 2
    MaxRpc = 1
    MaxBans = 1
    MaxCrashes = 1
INVARIANT AcceptedOnce
 
PROPERTY Delivered
CHECK_DEADLOCK FALSE
