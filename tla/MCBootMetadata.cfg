CONSTANTS
  Capacity = 3
  State <- MCState
  Data = {d1}
  Malformed = Malformed
  SeqLimit = 6
  PartialErase = TRUE
  Erased = Erased
  Torn = Torn
SPECIFICATION Spec
INVARIANTS
  TypeOK
  SequencesDistinct
  ChosenSlotIsErased
PROPERTIES
  LatestLostOnlyByCompaction
  CorruptIsAbsorbing
