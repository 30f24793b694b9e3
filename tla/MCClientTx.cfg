CONSTANTS
  t1 = t1
  t2 = t2
  Tx = {t1, t2}
  MaxHeight = 3
  OwnHeights = {1, 3}
  MaxBlockTx = 2
  ReplaceTx = {t1}
SPECIFICATION FairSpec
INVARIANT ChainIsDecided
INVARIANT NoTxLoss
INVARIANT StaleWorkingFlagged
PROPERTY TxEventuallyChained
PROPERTY BlocksImported
