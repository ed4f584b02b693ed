\* Two processes in the loop at the same time, no fault at all.
SPECIFICATION Spec
CONSTANTS
  Procs = {p1, p2}
  Files <- MCFG
  Patches <- MCABC
  Patch <- MCPatchABC
  Pins <- MCPins
  Wheel <- MCWheelFG
  ManifestPins <- MCOnlyV1
  ReadOnly <- MCNone
  NoFile = NoFile
  NoPatchCache = FALSE
  IoFaults = FALSE
  Order <- MCTwoFiles
  ViaSpecs <- MCNone
  Exclusive = FALSE
  MaxBoots = 2
  MaxOps = 0
CHECK_DEADLOCK FALSE
INVARIANTS FilesWhole
