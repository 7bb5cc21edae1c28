\* One chain of the supervisor, with an invalid block and an L1 reorg.
SPECIFICATION Spec
CONSTANTS
  None = None
  Block <- MCBlock
  Source <- MCSource
  Number <- MCNumber
  Parent <- MCParent
  Ancestors <- MCAncestors
  Activation <- MCActivation
  Bad <- MCBad
  Jobs <- MCSafeJob
  MaxEvents = 1
  MaxSpawned = 1
  MaxCommands = 1
  MaxForks = 1
  Trees <- MCTrees
  NodeFails = TRUE
  L1Fails = TRUE
INVARIANT StorageLinked
INVARIANT HeadsJustified
PROPERTY SafeLogsKept
INVARIANT NoInvalidCrossSafe
CHECK_DEADLOCK FALSE
