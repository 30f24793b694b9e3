CONSTANTS
  b1 = b1
  b2 = b2
  genesis = genesis
  none = none
  NodeCount = 4
  Node <- MCNode
  Blocks <- MCBlocks
  ClientBlocks <- MCClientBlocks
  EmptyBlocks = {}
  OmitEmptyBlock = FALSE
  GenesisBlock = genesis
  NoBlock = none
  CrashNodes = {}
  DownNodes = {3}
  MaxHeight = 2
  MaxRestarts = 1
  MaxView = 0
  BackupFailNodes = {}
SPECIFICATION FairSpec
INVARIANT CommitCertified
PROPERTY EveryHeightDecided
