\* A commit that fails between the two commits of a cancellation.
CONSTANTS
  TargetVolume = 3
  MaxSliceVolume = 2
  MaxOperations = 3
  MaxObservations = 0
  Descriptors = {"ticketed", "unbound"}
  CommitFails = {TRUE}
SPECIFICATION Spec
INVARIANTS
  ExposureIsTracked
CHECK_DEADLOCK FALSE
