CONSTANTS
  None = None
  CacheSize = 0
  t1 = t1
  Deposits = Deposits
  NoBlock = NoBlock
  NoAttributes = NoAttributes
  RpcFails = FALSE
  HoloceneActive = TRUE
  Malformed = {}
  SeqWindow = 2
  OriginLag = 2
  ReorgDepth = 0
  FinalityLag = 1
  MaxL1 = 4
  MaxQueue = 1
  MaxGossip = 2
  Txs = {t1}
  Invalid = {}
  StartChain <- LongChain
  StartL1 <- L1Two
  GossipBlocks <- ForkGossip
SPECIFICATION MCSpec
INVARIANT SafeFromL1
 
INVARIANT FinalizedNotAheadOfUnsafe
INVARIANT ELAgrees
 
INVARIANT DepositsOnce
INVARIANT UpgradesApplied
\* A critical error ends the node: a behaviour may stop.
CHECK_DEADLOCK FALSE
