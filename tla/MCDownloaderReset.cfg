CONSTANTS
  a = a
  b = b
  a1 = a1
  a2 = a2
  b1 = b1
  Ids <- MCIds
  Releases <- MCReleases
  IdOf <- MCIdOf
  Size <- MCSize
  Sectors = 3
  CheckpointEvery = 2
  Erased = Erased
  Torn = Torn
  Valid = Valid
  None = None
  Wanted = a
  Bound <- MCOneReset
SPECIFICATION FairSpec
PROPERTIES
  RetryRepairs
