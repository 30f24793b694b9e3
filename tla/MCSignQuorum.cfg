CONSTANTS
  b1 = b1
  b2 = b2
  genesis = genesis
  none = none
  NodeCount = 4
  Node <- MCNode
  Blocks <- MCBlocks
  ClientBlocks <- MCClientBlocks
  EmptyBlocks = {}
  OmitEmptyBlock = FALSE
  GenesisBlock = genesis
  NoBlock = none
  CrashNodes = {}
  DownNodes = {}
  MaxHeight = 1
  MaxRestarts = 1
  MaxView = 0
  BackupFailNodes = {}
SPECIFICATION Spec
INVARIANT SignQuorumLocks
