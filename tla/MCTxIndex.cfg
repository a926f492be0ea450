SPECIFICATION FairSpec
CONSTANTS
  G = G
  A1 = A1
  A2 = A2
  B1 = B1
  tA1 = tA1
  tA2 = tA2
  tAB = tAB
  Block = {G, A1, A2, B1}
  Genesis = G
  Parent <- MCParent
  Height <- MCHeight
  Tx = {tA1, tA2, tAB}
  TxsOf <- MCTxsOf
  Null = Null
  MaxQueue = 2
  MaxRestarts = 1
INVARIANTS
  IndexComplete
  QueueCatchesUp
  SyncedOnReturn
  FoundInActiveChain
PROPERTIES
  CatchesUp
CHECK_DEADLOCK FALSE
