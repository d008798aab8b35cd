\* A ring of transfers over three accounts under fair scheduling.
SPECIFICATION FairSpec
CONSTANTS
  h1 = h1
  h2 = h2
  h3 = h3
  NoHandler = NoHandler
  NoToken = NoToken
  Ids <- ThreeAccounts
  Refs = {"t1", "t2", "t3", "t4", "t5"}
  Handlers <- Three
  Requests <- RingTransfers
  SeedBalances = {4}
  MaxSeeds = 1
PROPERTIES
  EveryTransferAnswered
