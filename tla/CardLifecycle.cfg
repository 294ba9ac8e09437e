SPECIFICATION Spec
CONSTANTS
  Requests = {1, 2, 3}
  Keys = {"k1", "k2"}
  Customers = {"c1", "c2", "c3"}
  Phones = {"p1", "p2"}
  Serials = {"s1", "s2", "s3", "s4"}
  MaxCards = 6
  Mixes <- MCMixes
  None = None
INVARIANTS
  CardsFormChains
  RepliesTellTheTruth
PROPERTY ChangesFollowWhatWasSeen
CHECK_DEADLOCK FALSE
