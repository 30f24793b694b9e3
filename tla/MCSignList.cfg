CONSTANTS
  h1 = h1
  h2 = h2
  N = 4
  Hash = {h1, h2}
  BlockHash = h1
  MaxSignList = 3
SPECIFICATION Spec
INVARIANT AcceptedIsCertified
