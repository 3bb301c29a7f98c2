CONSTANTS
  Tx <- MCTx
  Coin = {}
  Ins <- MCIns
  NOut <- MCNOut
  Block <- MCAll
  Genesis = "g"
  Prev <- MCPrev
  BlockTrust <- MCTrust
  Txs <- MCTxs
  Bad = {}
  Gen <- MCGen
  CoinBase <- MCCoinBase
  Vin <- MCVin
  Val <- MCVal
  Maturity = 1
  Premine = 6
  AgeReward <- MCAgeReward
  hashPostmine = "u"
  PostmineValue = 5
  PostmineBlock = 3
  None = "none"
  MaxCrash = 3
  MaxFail = 1
SPECIFICATION Spec
INVARIANTS TxIndexMatchesChain PnextIsBestChain MoneySupplyIsUnspent BestIsMostTrusted PoolNotIndexed
PROPERTY DiskTrustGrows
CHECK_DEADLOCK FALSE
