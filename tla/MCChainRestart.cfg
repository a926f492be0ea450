SPECIFICATION FairSpec
CONSTANTS
  G = G
  A1 = A1
  A2 = A2
  A3 = A3
  B1 = B1
  B2 = B2
  B3 = B3
  Null = Null
  Block = {G, A1, A2, B1, B2}
  Genesis = G
  Parent <- MCParent
  Height <- MCHeight
  Addr <- MCAddr
  ChainWork <- EvenWork
  BadData = {A2}
  BadConnect = {B1}
  BatchSize = 32
  MaxReorgDepth = 1
  MinimumChainWork = 0
  ParkDeepReorg = TRUE
  AutomaticUnparking = TRUE
  Commands = {}
  MaxCommands = 0
  MaxRestarts = 1
INVARIANTS
  CheckBlockIndex
  TipIsBest
PROPERTIES
  ActivationEnds
CHECK_DEADLOCK FALSE
