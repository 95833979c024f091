CONSTANTS
  Spelling <- MCSpelling
  Norm <- MCNorm
  Seeds <- MCSeeds
  Sites <- MCSites
  OffDomain = {"offsite"}
  Unsafe = {"internal"}
  Asset = {"pdf"}
  MaxPages = 3
  Concurrency = 2
  SameDomainOnly = TRUE
  Modes = {"pages"}
  Faults = {}

SPECIFICATION Spec
CHECK_DEADLOCK FALSE
INVARIANT RegisteredHasTask
