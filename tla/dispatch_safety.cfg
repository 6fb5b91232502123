\* One operation, two owner loops, every descriptor and every fill of up to 2.
CONSTANTS
  Op = {o1}
  Writer = {w1, w2}
  Kinds = {"open"}
  Descriptors = {"ticketed", "unbound"}
  Volume = {0, 1, 2}
  MaxEpoch = 2
  MaxRevision = 12
SPECIFICATION FairSpec
INVARIANTS
  AtMostOneCall
  NeverResumedAfterCall
  
  ExecutionIsFenced
  
PROPERTIES
  OneShotSpec
  JournalIsMonotone
  TicketedIsNormalized
CHECK_DEADLOCK FALSE
