SPECIFICATION FairSpec
CONSTANTS
  a1 = a1
  a2 = a2
  g1 = g1
  g2 = g2
  Editors = {a1, a2}
  Readers = {g1, g2}
  MaxSaves = 2
  MaxOutages = 1
  Nothing = Nothing
  Unavailable = Unavailable
  SystemError = SystemError
CONSTRAINT Together
INVARIANTS
  NoLostUpdate
  SingleFlight
PROPERTY NewestIsServed
