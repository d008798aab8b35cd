\* Two events of a payment, in every order the payment service may publish
\* them; two replicas; two crashes, shutdowns or rebalances.
SPECIFICATION FairSpec
CONSTANTS
  Payments = {"p"}
  Consumers = {"n1", "n2"}
  NoConsumer = "none"
  MaxMoves = 1
  MaxEvents = 2
  MaxFaults = 2
INVARIANTS
  TypeOK
  NotifiedIsTrue
  NoneForgotten
PROPERTY
  NotifiedUnlessLost
