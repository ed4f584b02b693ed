\* Patchers of two sub-patches over a small alphabet, on every short text.
SPECIFICATION Spec
CONSTANTS
  Procs = {p1}
  Files = {"f"}
  Patches <- MCPatches
  Patch <- MCPatch
  Pins <- MCPins
  Wheel <- MCWheel
  ManifestPins <- MCManifestPins
  ReadOnly <- MCNone
  NoFile = NoFile
  NoPatchCache = FALSE
  IoFaults = FALSE
INVARIANTS
  ManifestMatchesScan
  RequiredAllOrNothing
  DryRunPredictsCommit
CHECK_DEADLOCK FALSE
