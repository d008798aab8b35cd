\* One worker and two events of one account.
SPECIFICATION Spec
CONSTANTS
  Workers = {w1}
  Events = {1, 2}
  Accounts = {"a"}
  SourceOf <- TwoOfOne
  BatchSize = 2
  Unreachable = {}
  MaxCopies = 2
  MaxCrashes = 0
INVARIANT
  PerAccountOrder
