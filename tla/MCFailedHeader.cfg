SPECIFICATION Spec
CONSTANTS
  G = G
  A1 = A1
  A2 = A2
  A3 = A3
  B1 = B1
  B2 = B2
  B3 = B3
  Null = Null
  Block = {G, A1, A2}
  Genesis = G
  Parent <- MCParent
  Height <- MCHeight
  Addr <- MCAddr
  ChainWork <- EvenWork
  BadData = {}
  BadConnect = {}
  BatchSize = 32
  MaxReorgDepth = 2
  MinimumChainWork = 0
  ParkDeepReorg = TRUE
  AutomaticUnparking = TRUE
  Commands = {"invalidate", "reconsider"}
  MaxCommands = 2
  MaxRestarts = 0
INVARIANTS
  FailedBlocksFailed
CHECK_DEADLOCK FALSE
