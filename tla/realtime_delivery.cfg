\* One source, two subscriptions of one or two members, rings of one or two.
\* The handles are bounded: a registry emptied after the last one stays empty.
CHECK_DEADLOCK FALSE
CONSTANTS
  k1 = k1
  Key = {k1}
  Requests <- MCRequests
  Capacities = {1, 2}
  Outcomes = {"ready", "failed"}
  MaxSubscriptions = 2
  MaxMembers = 3
  MaxBatches = 3
  MaxRewrites = 2
SPECIFICATION Spec
INVARIANTS
  LossIsOwnAndReported
  WindowCoversTheUntold
  ServedInARound
PROPERTIES
  EpochsStayWithTheirSource
