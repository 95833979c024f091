CONSTANTS
  Kinds = {"file", "page"}
  Job = {j1, j2}
  Batches = 1
  S3 = TRUE
  Patient = FALSE
  Faults = {"stageFails", "clearFails", "storeFails", "databaseFails", "deleteFails", "unlinkFails", "webhookFails", "crash", "cli"}

SPECIFICATION Spec
CHECK_DEADLOCK FALSE
SYMMETRY Symmetry
INVARIANTS TypeOK BytesReachable
