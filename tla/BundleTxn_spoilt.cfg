\* Violated: the patcher whose write fails leaves its file truncated.
SPECIFICATION Spec
CONSTANTS
  Procs = {p1, p2}
  Files <- MCFiles
  Patches <- MCPatches
  Patch <- MCPatch
  Pins <- MCPins
  Wheel <- MCWheel
  ManifestPins <- MCRaced
  ReadOnly <- MCNone
  NoFile = NoFile
  NoPatchCache = FALSE
  IoFaults = TRUE
  Bundle <- MCBundle
  Exclusive = TRUE
  MaxRuns = 1
  MaxFaults = 1
INVARIANTS OriginalNeverLost
CHECK_DEADLOCK FALSE
