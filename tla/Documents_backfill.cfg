CONSTANTS
  Kinds = {"file"}
  Job = {j1}
  Batches = 1
  S3 = TRUE
  Patient = TRUE
  Faults = {"crash"}

SPECIFICATION Spec
CHECK_DEADLOCK FALSE
INVARIANT ReadyIsIndexed
