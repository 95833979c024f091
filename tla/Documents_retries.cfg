CONSTANTS
  Kinds = {"file", "image"}
  Job = {j1, j2, j3}
  Batches = 2
  S3 = TRUE
  Patient = TRUE
  Faults = {"stageFails"}

SPECIFICATION Spec
CHECK_DEADLOCK FALSE
SYMMETRY Symmetry
INVARIANTS ReadyIsIndexed SourceOutlivesJob ShortlistedHasChunks ScratchReleased
