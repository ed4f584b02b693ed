\* Boots that take turns with B before A, whose replacement makes B's
\* anchor, with h on a read-only mount and p2 on the spec-driven loop.
SPECIFICATION FairSpec
CONSTANTS
  Procs = {p1, p2}
  Files <- MCFH
  Patches <- MCABD
  Patch <- MCPatchABD
  Pins <- MCPins
  Wheel <- MCWheelFH
  ManifestPins <- MCOnlyV1
  ReadOnly <- MCReadOnly
  NoFile = NoFile
  NoPatchCache = FALSE
  IoFaults = TRUE
  Order <- MCReversed
  ViaSpecs = {p2}
  Exclusive = TRUE
  MaxBoots = 3
  MaxOps = 2
PROPERTIES
  RerunsOnlyCatchUp
  BootEnds
CHECK_DEADLOCK FALSE
