SPECIFICATION Spec
CONSTANTS
  c = c
  t1 = t1
  t2 = t2
  t3 = t3
  d = d
  s = s
  r = r
  u = u
  g = g
  a1 = a1
  a2 = a2
  f2 = f2
  b1 = b1
  b2 = b2
  h2 = h2
  None = None
  Tx = {t1, t2, t3, d, s, r, u}
  Coin = {c}
  Ins <- MCIns
  Vin <- MCVin
  NOut <- MCNOut
  Block = {g, a1, a2, f2, b1, b2, h2}
  Genesis = g
  Prev <- MCPrev
  BlockTrust <- MCTrust
  Txs <- MCTxs
  Bad = {f2}
  Stake = {s, r}
  Mine <- MCMine
  Own = {t1, t2, t3, d}
  CopyDepth = 1
  Maturity = 1
  MaxFail = 0
  MaxStart = 1
PROPERTY CommitAccepted
