SPECIFICATION FairSpec
CONSTANTS
  q1 = q1
  q2 = q2
  l1 = l1
  l2 = l2
  Requests = {q1, q2, l1, l2}
  Saved = {l1, l2}
  Keys = {"k1"}
  Payloads = {"b1"}
  Receipts = {"r1"}
  KeyOf <- MCKeyOf
  PayloadOf <- MCPayloadOf
  ReceiptOf <- MCReceiptOf
  SavedAs <- MCSavedAs
  None = None
  Calls = {s1, s2}
  Limits = {1, 2}
  MaxCrashes = 1
  MaxLosses = 1
  MaxReloads = 1
CONSTRAINT Together
INVARIANTS
  TypeOK
  DeviceShowsServerState
  SyncingIsAwaited
PROPERTIES
  AnswersAreFinal
  BatchEnds
CHECK_DEADLOCK FALSE
