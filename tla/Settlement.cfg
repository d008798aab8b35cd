\* Two replicas; a process ends, a call fails or is sent again; the lease lives for
\* three ticks and calls take any time; one payment is settled meanwhile.
SPECIFICATION FairSpec
CONSTANTS
  Nodes = {n1, n2}
  NoNode = NoNode
  Foreign = Foreign
  TTL = 3
  MaxCrashes = 1
  MaxErrors = 1
  Payments = {p1}
  MaxMoves = 1
INVARIANTS
  TypeOK
  OneJob
  NoFalseAlarm
PROPERTY
  AlwaysALeaderAgain
