CONSTANTS
  a = a
  b = b
  Image = {a, b}
  Size <- MCSize
  Version <- MCVersion
  Factory = {a}
  Manifest <- MCManifest
  Package <- MCManifest
  Session = {1, 2}
  Units = 2
  SectorUnits = 2
  MaxChunk = 1
  Checkpoint = 2
  Overhead = 8
  MaxAttempts = 3
  MaxFaults = 0
  Capacity = 40
  Erased = Erased
  Partial = Partial
  Retries = 3
  SeqMod = 3
  MaxQueue = 2
  MaxTrouble = 2
SPECIFICATION FairSpec
INVARIANTS
  TypeOK
  AnswersMatch
  TransferredIsInFlash
PROPERTIES
  NodeSpec
  SuccessIsConfirmed
  FewLossesAreSurvived
  TaskEnds
  RestartRepairs
CHECK_DEADLOCK FALSE
