CONSTANTS
  Node <- MCNode
  Miner <- MCMiner
  Link <- MCLink
  Kind <- MCKind
  Cap <- MCCap
  Key <- MCKey
  Tip <- MCTip
  RelayWindow = 10
  MaxBroadcasts = 4
SPECIFICATION Spec
INVARIANT PeerSeenBound
CHECK_DEADLOCK FALSE
