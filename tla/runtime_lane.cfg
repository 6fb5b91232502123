\* Three trade callers keep the lane busy for two market-data callers.
CONSTANTS
  Caller = {t1, t2, t3, m1, m2}
  TradeCaller = {t1, t2, t3}
  TradeBurstLimit = 2
SPECIFICATION LaneFairSpec
INVARIANTS
  OneCallInside
  WaitersGetIn
PROPERTIES
  TradeGoesFirst
  MarketDataProgresses
