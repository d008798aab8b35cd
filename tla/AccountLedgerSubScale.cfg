\* One transfer of half the last digit of NUMERIC(18,4).
SPECIFICATION Spec
CONSTANTS
  h1 = h1
  h2 = h2
  h3 = h3
  NoHandler = NoHandler
  NoToken = NoToken
  Ids <- TwoAccounts
  Refs = {"t1", "t2", "t3", "t4", "t5"}
  Handlers <- Pair
  Requests <- SubScaleTransfers
  SeedBalances = {4}
  MaxSeeds = 1
INVARIANTS
  MoneyConserved
