CONSTANTS
  a = a
  b = b
  Image = {a, b}
  Size <- MCSize
  Version <- MCVersion
  Factory = {a}
  Manifest <- MCManifest
  Session = {1}
  Units = 3
  SectorUnits = 2
  MaxChunk = 2
  Checkpoint = 2
  Overhead = 8
  MaxAttempts = 3
  MaxFaults = 0
  Capacity = 20
  Erased = Erased
  Partial = Partial
SPECIFICATION Spec
INVARIANTS
  FailedAllowsRestart
