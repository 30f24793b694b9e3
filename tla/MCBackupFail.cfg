CONSTANTS
  b1 = b1
  b2 = b2
  genesis = genesis
  none = none
  NodeCount = 2
  Node <- MCNode
  Blocks <- MCBlocks
  ClientBlocks <- MCAnyBlocks
  EmptyBlocks = {}
  OmitEmptyBlock = FALSE
  GenesisBlock = genesis
  NoBlock = none
  CrashNodes = {0, 1}
  DownNodes = {}
  MaxHeight = 1
  MaxRestarts = 1
  MaxView = 0
  BackupFailNodes = {0, 1}
SPECIFICATION Spec
PROPERTY Refinement
