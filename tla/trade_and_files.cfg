\* The trade: three lots in slices of up to two, four operations, four
\* snapshots.  The files: two clients, two keys that share a file, two revisions
\* of a record and two tokens.
CONSTANTS
  TargetVolume = 3
  MaxSliceVolume = 2
  MaxOperations = 4
  MaxObservations = 4
  o1 = o1
  o2 = o2
  v = v
  account = account
  k1 = k1
  k2 = k2
  Client = {c1, c2}
  Operation = {o1, o2}
  Reversal = {v}
  Account = account
  Kinds = {k1, k2}
  FileOf <- MCFileOf
  Requests <- MCRequests
  MaxToken = 2
SPECIFICATION BothFairSpec

  
PROPERTIES
  
  AttemptIsNeverRepeated
  ObligationDischarged
  StoresKeepTheirPromise
CHECK_DEADLOCK FALSE
