CONSTANTS
  Kinds = {"file", "image", "page"}
  Job = {j1, j2}
  Batches = 2
  S3 = TRUE
  Patient = TRUE
  Faults = {"stageFails", "clearFails", "deleteFails", "crashLater"}

SPECIFICATION FairSpec
CHECK_DEADLOCK FALSE
INVARIANTS DeletedLeavesNothing
PROPERTIES OnlyDeadJobsAreInterrupted RegistrySpec Settles
