\* Two lots, four operations, crashes between any two commits, and behaviours
\* in which the store refuses commits.
CONSTANTS
  TargetVolume = 2
  MaxSliceVolume = 2
  MaxOperations = 4
  MaxObservations = 0
  Descriptors = {"ticketed", "unbound"}
  CommitFails = {FALSE, TRUE}
SPECIFICATION Spec
INVARIANTS
  RecoveryAgrees
  
  
CHECK_DEADLOCK FALSE
