SPECIFICATION Spec
CONSTANTS
  r1 = r1
  r2 = r2
  Requests = {r1, r2}
  Nonces = {1, 2}
  MaxSessions = 3
  MaxCredentials = 3
  MaxAttempts = 2
  MaxChallenges = 2
  MaxSecrets = 2
SYMMETRY Interchangeable
INVARIANTS
  SessionsFollowPairing
  CredentialIsThePairing
  ProofSpentOnce
