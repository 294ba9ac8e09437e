SPECIFICATION Spec
CONSTANTS
  Earns = {"earn"}
  Redeems = {"redeem"}
  BasketOnly = {}
  Requests = {"q1"}
  Keys = {"k1", "k2"}
  KeyOf <- MCKeyOf
  ApprovalOf <- MCApprovalOf
  VerdictOf <- MCVerdictOf
  Own <- MCOwn
  Batch = 1
  MaxVersion = 1
  None = None
INVARIANT PolicyRefusalIsTrue
