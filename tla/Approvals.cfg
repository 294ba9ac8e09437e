SPECIFICATION FairSpec
CONSTANTS
  Earns = {"earn"}
  Redeems = {"redeem"}
  BasketOnly = {}
  Requests = {"q1", "q2", "q3", "q4", "q5"}
  Keys = {"k1", "k2"}
  KeyOf <- MCKeyOf
  ApprovalOf <- MCApprovalOf
  VerdictOf <- MCVerdictOf
  Own <- MCOwn
  Batch = 2
  MaxVersion = 1
  None = None
CONSTRAINT Together
INVARIANTS
  RowsAgree
PROPERTIES
  Implements
  OverdueIsSettled
  EveryDecisionAnswered
