SPECIFICATION Spec
CONSTANTS
  a = a
  b = b
  t = t
  d = d
  u = u
  Peer <- MCPeer
  Account <- MCAccount
  Target <- MCTarget
  Volume <- MCVolume
  Lifetime = 1
  Capacity = 2
  Nonces = 3
  Clock = 1
  Runs = 2
INVARIANTS
  TypeOK
  ExecutedWasPrepared
  NoncesWorkOnce
  StagedOnce
SYMMETRY MCSymmetry
CHECK_DEADLOCK FALSE
