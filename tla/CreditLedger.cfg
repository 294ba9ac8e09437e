SPECIFICATION Spec
CONSTANTS
  Customers = {c1, c2}
  Receipts = {r1}
  None = None
  Purchases = {2}
  Adjustments = {3}
  EarnRateBps = 10000
  MinRedemption = 1
  MaxBasketPercent = 100
  LotLife = 1
  Rank <- MCRank
  BatchSize = 2
  MaxEntries = 5
  MaxTime = 2
SYMMETRY Interchangeable
INVARIANTS
  TypeOK
  LotEvidence
  LedgerMatchesLots
  ReversalsRestoreInFull
  WrittenOffForGood
  SettlementReversedAsUnit
PROPERTIES
  FirstExpiringFirst
  OnlyExpiryTouchesLapsedLots
CHECK_DEADLOCK FALSE
