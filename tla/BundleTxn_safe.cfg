\* Runs one after another by two processes, with I/O errors and crashes.
SPECIFICATION Spec
CONSTANTS
  Procs = {p1, p2}
  Files <- MCFiles
  Patches <- MCPatches
  Patch <- MCPatch
  Pins <- MCPins
  Wheel <- MCWheel
  ManifestPins <- MCRaced
  ReadOnly <- MCNone
  NoFile = NoFile
  NoPatchCache = FALSE
  IoFaults = TRUE
  Bundle <- MCBundle
  Exclusive = TRUE
  MaxRuns = 3
  MaxFaults = 2
INVARIANTS
  TypeOK
  AppliedMeansAll
  SkippedUntouched
  RollbackRestores
  OriginalNotLost
  CacheTruthful
PROPERTIES IsAtomic
CHECK_DEADLOCK FALSE
