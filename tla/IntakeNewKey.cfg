CONSTANTS
  Block <- MCBlock
  Genesis = "g"
  Prev <- MCPrev
  BlockTrust <- MCTrust
  Bad = {"x2"}
  Hardened <- MCUpgrade
  None = "none"
  Stake <- MCStake
  Refused = {}
  Light <- MCLight
  Checkpoint = {"a1", "b2", "a3"}
  MaxCrash = 2
SPECIFICATION Spec
INVARIANT KeyChangeResets
CHECK_DEADLOCK FALSE
