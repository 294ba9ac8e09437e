SPECIFICATION Spec
CONSTANTS
  Customers = {c1}
  Receipts = {r1}
  None = None
  Purchases = {2}
  Adjustments = {3}
  EarnRateBps = 10000
  MinRedemption = 1
  MaxBasketPercent = 100
  LotLife = 1
  Rank <- MCRank
  BatchSize = 2
  MaxEntries = 6
  MaxTime = 0
INVARIANT PairStandsOrFallsTogether
CHECK_DEADLOCK FALSE
