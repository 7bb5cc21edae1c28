SPECIFICATION Spec
CONSTANTS
    NoBlock = NoBlock
    L1Time = 2
    BlockTime = 1
    MaxDrift = 1
    ConfDepth = 0
    UpgradeTimes = {}
    Txs = {"a"}
    OrphansServed = TRUE
    MaxL1 = 2
    MaxL2 = 3
    MaxReorgs = 0
CHECK_DEADLOCK FALSE
PROPERTY ExtendsTheChain
