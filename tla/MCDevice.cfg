CONSTANTS
  a = a
  b = b
  Image = {a, b}
  Size <- MCSize
  Version <- MCVersion
  Factory = {a}
  Manifest <- MCManifest
  Session = {1, 2}
  Units = 3
  SectorUnits = 2
  MaxChunk = 2
  Checkpoint = 2
  Overhead = 8
  MaxAttempts = 3
  MaxFaults = 2
  Capacity = 12
  Erased = Erased
  Partial = Partial
SPECIFICATION Spec
INVARIANTS
  TypeOK
  RunsWholeImage
  PendingIsVerified
  ConfirmedIsCompatible
  ProgressIsInFlash
  ResumeLosesLessThanCheckpoint
  StartsAreCounted
  ReserveSuffices
PROPERTIES
  AcknowledgedDataStays
