SPECIFICATION CreditsSpec
CONSTANTS
  NoItem = NoItem
  Identities = {1, 2, 9}
  Proposers = {1, 2}
  Payees = {2, 9}
  EPOCHS_PER_YEAR = 1
  PERPETUAL_STORAGE_YEARS = 2
  FEE_DISTRIBUTION_TABLE <- Table
  TABLE_ONE = 10
  PROPOSERS_PER_LAG = 1
  DECIMAL_ONE = 100
  BATCHING_ENABLED = TRUE
  ShareIds = {1, 2}
  Percentages = {3333}
  Fees <- MixedFees
  MaxGap = 2
  MaxEpoch = 3
  MaxHeight = 4
CHECK_DEADLOCK FALSE
INVARIANTS PoolsInv BooksKept FailsOnlyFor
PROPERTIES NothingSkipped PayoutMakesProgress UnpaidPoolFrozen
