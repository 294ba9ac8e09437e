SPECIFICATION FairSpec
CONSTANTS
  Requests = {1, 2, 3}
  Keys = {"k1", "k2"}
  Payloads = {"a", "b", "d", "e", "v", "w"}
  Receipts = {"r1", "r2"}
  Mixes <- Meetings
  Attempts = 2
  None = None
INVARIANTS
  EffectOnce
  TargetTakenOnce
  RepliesTellTheTruth
PROPERTIES
  RecordsKeptForLife
  EveryRequestAnswered
CHECK_DEADLOCK FALSE
