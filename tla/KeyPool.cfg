SPECIFICATION Spec
CONSTANTS
  r1 = r1
  r2 = r2
  Reserver = {r1, r2}
  Keypool = 1
  Refill = {1, 2}
  DefaultKey = DefaultKey
  MaxKey = 7
  MaxStart = 2
SYMMETRY Symmetry
INVARIANTS PoolOnDisk KeyHandedOutOnce IndexGivenOnce
CHECK_DEADLOCK FALSE
