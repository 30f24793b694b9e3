CONSTANTS
  b1 = b1
  b2 = b2
  genesis = genesis
  none = none
  NodeCount = 2
  Node <- MCNode
  Blocks <- MCBlocks
  ClientBlocks <- MCClientBlocks
  EmptyBlocks = {}
  OmitEmptyBlock = FALSE
  GenesisBlock = genesis
  NoBlock = none
  CrashNodes = {}
  DownNodes = {}
  MaxHeight = 1
  MaxRestarts = 1
  MaxView = 2
  BackupFailNodes = {}
SPECIFICATION Spec
INVARIANT TypeOK
INVARIANT CommitCertified
INVARIANT LockedDecision
PROPERTY Refinement
PROPERTY ViewMonotonic
