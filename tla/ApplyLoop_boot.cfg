\* Boots of two processes that take turns, with crashes, write errors,
\* restores and installs in between.
SPECIFICATION Spec
CONSTANTS
  Procs = {p1, p2}
  Files <- MCFG
  Patches <- MCABC
  Patch <- MCPatchABC
  Pins <- MCPins
  Wheel <- MCWheelFG
  ManifestPins <- MCOnlyV1
  ReadOnly <- MCNone
  NoFile = NoFile
  NoPatchCache = FALSE
  IoFaults = TRUE
  Order <- MCTwoFiles
  ViaSpecs <- MCNone
  Exclusive = TRUE
  MaxBoots = 3
  MaxOps = 2
SYMMETRY Symmetric
INVARIANTS
  TypeOK
  CacheTruthful
  ReportsHold
  FilesWhole
PROPERTIES
  RebootIsNoop
CHECK_DEADLOCK FALSE
