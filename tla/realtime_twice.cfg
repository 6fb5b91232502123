\* A source of ticks whose reads never fail.
CONSTANTS
  Readers = {"poller"}
  MaxTime = 3
  Payload = {a, b}
  MaxTicks = 3
  PageSize = 1
  Early = {0, 1}
  Trigger = 2
  InitialStep = 4
  MinimumStep = 1
  ProbeLimit = 6
  NoProgressLimit = 3
  ShortPageProbes = 2
  PartialPageLimit = 1
  HistoryEnd = 2
  Budget = 2
  MinOverlap = 1
  MaxOverlap = 2
  Arriving = {a}
  Statuses = {"clean"}
  Refusals = {}
  BarTime = {0, 1, 2, 3}
  Value = {u, v}
  Period = 2
  RecoveryFailures = 3
  ConfirmationProbes = 2
  MaxBarChanges = 2
SPECIFICATION MarketSpec
INVARIANT AcceptedOnce
CHECK_DEADLOCK FALSE
