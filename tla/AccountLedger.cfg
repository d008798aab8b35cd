\* Three concurrent transfers in both directions between two accounts, with and
\* without Redis locks, and bodies that validation refuses; the seeder
\* may run twice.
SPECIFICATION Spec
CONSTANTS
  h1 = h1
  h2 = h2
  h3 = h3
  NoHandler = NoHandler
  NoToken = NoToken
  Ids <- TwoAccounts
  Refs = {"t1", "t2", "t3", "t4", "t5"}
  Handlers <- Three
  Requests <- MixedTransfers
  SeedBalances = {4}
  MaxSeeds = 2
SYMMETRY Symmetric
INVARIANTS
  TypeOK
  NoLostUpdate
  NoMutualWait
  BalanceIsLedgerSum
  MoneyConserved
  AllOrNothing
PROPERTIES
  MoneyMovesInPairs
  ReleasesOnlyItsOwnLock
