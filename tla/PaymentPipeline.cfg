\* Two events of two payments, one above the limit, or of the same one twice; two
\* replicas of each service; one crash, shutdown, rebalance or failed call.
SPECIFICATION FairSpec
CONSTANTS
  Payments = {"p", "q"}
  Large = {"q"}
  FraudReplicas = {"f1", "f2"}
  SagaReplicas = {"s1", "s2"}
  NoConsumer = "none"
  MaxCopies = 2
  MaxFaults = 1
INVARIANTS
  TypeOK
  NoFeedback
  LargeNeverSucceeds
  OneOutcome
PROPERTY
  SettledUnlessLost
