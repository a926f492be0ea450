SPECIFICATION Spec
CONSTANTS
  G = G
  A1 = A1
  A2 = A2
  B1 = B1
  B2 = B2
  B3 = B3
  proof1 = proof1
  proof2 = proof2
  proof3 = proof3
  Proof = {proof1, proof2, proof3}
  OutPoint <- MCOutPoint
  GoodProof = {proof1, proof2}
  MaxOrphans = 2
  Block = {G, A1, A2, B1, B2, B3}
  Genesis = G
  Parent <- MCParent
  Height <- MCHeight
  Tx = {1, 2, 3, 4, 5, 6, 7, 8, 9, 10}
  Coinbase = {9, 10}
  Inputs <- MCInputs
  NumOutputs <- MCNumOutputs
  FirstHeight <- MCFirstHeight
  GoodFlags <- MCGoodFlags
  TxsOf <- MCTxsOf
  Flags <- MCFlags
  BadConnect = {B3}
  Unwindable = {A1, B2}
  MaxDisconnectPoolBlocks = 1
  MaxPool = 3
  MaxQueue = 5
  QuietUnwind = FALSE
INVARIANTS
  PoolConsistent
CHECK_DEADLOCK FALSE
