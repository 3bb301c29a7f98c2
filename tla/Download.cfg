CONSTANTS
  StartHeight = 6
  MaxHeight = 7
  PowChains <- MCPowChains
  BatchLimit = 2
  InvMax = 4
  KnownMax = 4
  YoungSpan = 2
  MaxReconnects = 1
SPECIFICATION Spec
INVARIANTS AnnouncementAdvances
PROPERTIES ChainDownloaded Quiesces
CHECK_DEADLOCK FALSE
