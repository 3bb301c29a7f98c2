CONSTANTS
  Block <- MCBlock
  Genesis = "g"
  Prev <- MCPrev
  BlockTrust <- MCTrust
  Bad = {"x2"}
  Hardened <- MCUpgrade
  None = "none"
  Stake <- MCStake
  Refused = {}
  Light <- MCLight
  Checkpoint = {"a1", "b2", "x3"}
  MaxCrash = 2
SPECIFICATION FairSpec
INVARIANTS TypeOK SyncOnBestChain OrphansSettled DeliveredIndexed PendingSettled
PROPERTIES CheckpointAdvances HandlerEnds
CHECK_DEADLOCK FALSE
