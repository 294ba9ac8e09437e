SPECIFICATION FairSpec
CONSTANTS
  q1 = q1
  q2 = q2
  q3 = q3
  q4 = q4
  Requests = {q1, q2, q3, q4}
  Keys = {"k1", "k2"}
  Payloads = {"b1", "b2", "b3"}
  Receipts = {"r1", "r2"}
  KeyOf <- MCKeyOf
  PayloadOf <- MCPayloadOf
  ReceiptOf <- MCReceiptOf
  None = None
  Attempts = 2
CONSTRAINT Together
INVARIANTS
  ReceiptCapturedOnce
  RepliesTellTheTruth
PROPERTIES
  RecordsKeptForLife
  Implements
  EveryRequestAnswered
