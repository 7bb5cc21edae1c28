CONSTANTS
  t1 = t1
  x1 = x1
  Deposits = Deposits
  NoBlock = NoBlock
  NoAttributes = NoAttributes
  RpcFails = TRUE
  HoloceneActive = TRUE
  Malformed = {}
  SeqWindow = 1
  OriginLag = 2
  ReorgDepth = 1
  FinalityLag = 1
  MaxL1 = 2
  MaxQueue = 1
  MaxGossip = 1
  Txs = {t1, x1}
  Invalid = {x1}
  StartChain <- ShortChain
  StartL1 <- L1One
  GossipBlocks <- MixedGossip
SPECIFICATION MCSpec
INVARIANT TypeOK
 
INVARIANT HeadsHeld
 
\* A critical error ends the node: a behaviour may stop.
CHECK_DEADLOCK FALSE
