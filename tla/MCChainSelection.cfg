SPECIFICATION Spec
CONSTANTS
  G = G
  A1 = A1
  A2 = A2
  A3 = A3
  B1 = B1
  B2 = B2
  B3 = B3
  Null = Null
  Block = {G, A1, A2, A3, B1, B2, B3}
  Genesis = G
  Parent <- MCParent
  Height <- MCHeight
  Addr <- MCAddr
  ChainWork <- SkewedWork
  BadData = {}
  BadConnect = {B3}
  BatchSize = 32
  MaxReorgDepth = 1
  MinimumChainWork = 4
  ParkDeepReorg = TRUE
  AutomaticUnparking = TRUE
  Commands = {}
  MaxCommands = 0
  MaxRestarts = 0
INVARIANTS
  CheckBlockIndex
  ActiveChainValid
  TipIsBest
PROPERTIES
  NoWorkLost
  FinalizedStays
CHECK_DEADLOCK FALSE
