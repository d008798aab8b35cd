\* Two replicas' workers, three events of which the oldest can never be
\* published, a batch of two, a crash.
SPECIFICATION FairSpec
CONSTANTS
  Workers = {w1, w2}
  Events = {1, 2, 3}
  Accounts = {"a", "z"}
  SourceOf <- StuckThenTwo
  BatchSize = 2
  Unreachable = {"z"}
  MaxCopies = 2
  MaxCrashes = 1
INVARIANTS
  TypeOK
  LostOnlyByKafka
PROPERTY
  EveryEventProcessed
