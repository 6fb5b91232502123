\* Two deals, read in full or one by one.
CONSTANTS
  Deal = {d1, d2}
  Anchor = d1
  Units = {1}
  Window = {{d1, d2}, {d2}}
  Process = {owner}
  Owner = owner
  MaxRevision = 3
  MaxReads = 3
SPECIFICATION Spec
INVARIANTS
  FrontierRefersToEveryDeal
CHECK_DEADLOCK FALSE
