SPECIFICATION Spec
CONSTANTS
  Hashes = {"a", "b", "c"}
  Size <- MCSize
  StoreCap = 2
  PinnedBudget = 2
  DiskOn = TRUE
  DiskCaps = {0, 2}
  NoData = NoData
  Requests = {r1, r2}
  Texts <- MCTexts
  Blocks = {1, 2, 3, 4}
  MaxRestarts = 1
  NoHash = NoHash
  NoBlock = NoBlock
INVARIANTS
  TypeOK
  FreeIsUnused
  CachedHoldsHash
  TiersKeepBooks
  NothingForgotten
PROPERTIES
  RunningKeepsBlocks
CHECK_DEADLOCK FALSE
