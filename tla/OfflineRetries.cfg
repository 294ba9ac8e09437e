SPECIFICATION FairSpec
CONSTANTS
  q1 = q1
  q2 = q2
  l1 = l1
  l2 = l2
  Requests = {q1, l1}
  Saved = {l1}
  Keys = {"k1"}
  Payloads = {"b1"}
  Receipts = {"r1"}
  KeyOf <- MCKeyOf
  PayloadOf <- MCPayloadOf
  ReceiptOf <- MCReceiptOf
  SavedAs <- MCSavedAs
  None = None
  Calls = {s1}
  Limits = {1}
  MaxCrashes = 0
  MaxLosses = 0
  MaxReloads = 0
PROPERTY RetriesSettle
CHECK_DEADLOCK FALSE
