SPECIFICATION FairSpec
CONSTANTS
  SmsEvents = {"sms", "bad"}
  FraudEvents = {"fraud"}
  ReportEvents = {"report"}
  BadPayload = {"bad"}
  Handlers = {h1, h2}
  Deployments <- SmallDeployments
  Retries = 2
  MaxFaults = 2
  None = None
CONSTRAINT Together
INVARIANTS
  OneMessagePerEvent
  CompletedWasSent
  EvaluatedOnce
PROPERTY EveryEventSettles
CHECK_DEADLOCK FALSE
