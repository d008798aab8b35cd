\* Two requests with one idempotency key (a retry, another payload, a body
\* validation refuses) and two consumers that settle the payment; replicas die,
\* PostgreSQL and Redis fail, a command is left unanswered, records expire.
SPECIFICATION Spec
CONSTANTS
  h1 = h1
  h2 = h2
  c1 = c1
  c2 = c2
  NoPayment = NoPayment
  Handlers <- TwoRequests
  Consumers <- TwoConsumers
  MaxUnanswered = 1
  Keys = {"k1"}
  Accounts = {"a", "b"}
  Currencies = {"USD"}
  Requests <- Retries
  Faults = {"crash", "postgres", "redis", "expiry"}
SYMMETRY Symmetric
INVARIANTS
  TypeOK
  OnePaymentPerKey
  OneEventPerPayment
  CacheIsCommitted
PROPERTIES
  InFlightAnswerHasCause
  ImplementsContract
