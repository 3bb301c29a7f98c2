CONSTANTS
  Key = {k1, k2}
  Value = {v1}
  Handle = {h1, h2}
  NotFound = NotFound
  Unset = Unset
  NoTxn = NoTxn
  MaxBatch = 2
SPECIFICATION Spec
INVARIANT TypeOK
PROPERTY KVSpec
