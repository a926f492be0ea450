CONSTANTS
  Genesis = Genesis
  A1 = A1
  A2 = A2
  B1 = B1
  B2 = B2
  Block = {Genesis, A1, A2, B1, B2}
  o1 = o1
  o2 = o2
  o3 = o3
  OutPoint = {o1, o2, o3}
  Spent = Spent
  Null = Null
  Parent <- MCParent
  Height <- MCHeight
  Creates <- MCCreates
  Spends <- MCSpends
  Utxo <- MCUtxo
SPECIFICATION FairSpec
INVARIANTS
  CoinsMatchTip
  DatabaseSound
  AlwaysRecoverable
  DisconnectNeverRefused
PROPERTIES
  RecoveryCompletes
