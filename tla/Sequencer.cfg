SPECIFICATION ServicesSpec
CONSTANTS
    NoBlock = NoBlock
    L1Time = 3
    BlockTime = 1
    MaxDrift = 1
    ConfDepth = 1
    UpgradeTimes = {1}
    Txs = {"a"}
    OrphansServed = FALSE
    MaxL1 = 2
    MaxL2 = 4
    MaxReorgs = 1
    None = None
    NoAddress = NoAddress
CHECK_DEADLOCK FALSE
INVARIANT Derivable
PROPERTY KeepsSequencing
 
INVARIANT ReadsWhatWasPosted
INVARIANT ReadsBack
INVARIANT DependenciesSafe
INVARIANT QueriesSound
INVARIANT NodesAgree
INVARIANT AnswersConsistent
 
INVARIANT DriverSound
