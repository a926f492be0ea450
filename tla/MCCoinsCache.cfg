CONSTANTS
  OutPoint = {o1, o2}
  Coin = {c1, c2}
  BlockHash = {h1, h2}
  Spent = Spent
  NullHash = NullHash
  NoEntry = NoEntry
SPECIFICATION Spec
INVARIANTS
  CacheCoherent
  NeverMisapplied
PROPERTIES
  ImplementsCoinsView
CHECK_DEADLOCK FALSE
