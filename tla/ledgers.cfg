\* One ledger each.  A close of two deals of one unit, read in full or one by
\* one; an open of two deals, two processes and two reads by each of them.
CONSTANTS
  Ledgers = {"settlement", "opening"}
  Deal = {d1, d2}
  Anchor = d1
  Units = {1}
  Window = {{d1, d2}, {d2}}
  Process = {owner, other}
  Owner = owner
  MaxRevision = 3
  MaxReads = 2
  Ticket = {t1, t2}
  Bound = t1
  Misread = {t2}
  Sampled = {{t1, t2}, {t2}}
  Reader = {p1, p2}
  FirstReader = p1
  MaxSamples = 2
  MaxLoads = 2
SPECIFICATION LedgersSpec
INVARIANTS
  FrontiersAreProofs
  UnitsAreTheBrokers
  
  NothingPreparedIsLost
CHECK_DEADLOCK FALSE
