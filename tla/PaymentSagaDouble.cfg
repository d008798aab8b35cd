\* One payment, one fraud result; the replica dies before its offset is
\* committed.
SPECIFICATION Spec
CONSTANTS
  Payments = {p1}
  Consumers = {c1, c2}
  NoConsumer = NoConsumer
  NoResult = NoResult
  FailureThreshold = 2
  SuccessThreshold = 1
  MaxResults = 1
  MaxCrashes = 1
  MaxRebalances = 0
INVARIANT
  NoDoubleCharge
