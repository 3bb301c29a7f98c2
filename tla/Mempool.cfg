CONSTANTS
  Tx <- MCTx
  Coin <- MCCoin
  Ins <- MCIns
  NOut <- MCNOut
  Gen = {"g"}
  Nonstandard = {"n"}
  MaxOrphans = 2
  MaxChain = 2
SPECIFICATION Spec
INVARIANTS TypeOK PoolConsistent PoolNotConfirmed OrphansIndexed OrphansBounded LoopsAgree
PROPERTIES OrphansResolved ReorganizeClearsConflicts ReorganizeKeepsTransactions HandlerTerminates
