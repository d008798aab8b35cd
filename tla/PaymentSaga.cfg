\* One payment with two fraud results, two replicas; a crash and a rebalance
\* deliver results again, to the same replica or to both.
SPECIFICATION FairSpec
CONSTANTS
  Payments = {p1}
  Consumers = {c1, c2}
  NoConsumer = NoConsumer
  NoResult = NoResult
  FailureThreshold = 2
  SuccessThreshold = 1
  MaxResults = 2
  MaxCrashes = 1
  MaxRebalances = 1
INVARIANTS
  TypeOK
  SuccessMeansMoved
  ChargedPerDelivery
  BreakerCounts
PROPERTIES
  ImplementsLifecycle
  ConsumerNeverBlocks
