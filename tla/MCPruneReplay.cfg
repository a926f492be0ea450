CONSTANTS
  Genesis = Genesis
  A1 = A1
  A2 = A2
  B1 = B1
  Block = {Genesis, A1, A2, B1}
  Parent <- MCParent
  Height <- MCHeight
  Size <- MCSize
  UndoSize <- MCUndoSize
  MaxBlockFileSize = 3
  MinBlocksToKeep = 1
  PruneAfterHeight = 1
  PruneTarget = 3
  UnsignedRange = 1000
  MaxFile = 2
  MaxCrashes = 1
  Null = Null
SPECIFICATION Spec
INVARIANT ReplayReadable
CHECK_DEADLOCK FALSE
