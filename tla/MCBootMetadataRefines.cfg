CONSTANTS
  Capacity = 3
  State <- MCState
  Data = {d1, d2}
  Malformed = Malformed
  SeqLimit = 5
  PartialErase = FALSE
  Erased = Erased
  Torn = Torn
SPECIFICATION Spec
PROPERTIES
  ImplementsJournal
