SPECIFICATION Spec
CONSTANTS
  NoIdentity = NoIdentity
  Enabled = Enabled
  OutPoints = {o1, o2}
  InstantLocked = {o1}
  o1 = o1
  o2 = o2
  Satoshis <- MCSatoshis
  TxHeight <- MCTxHeight
  KeyIds = {0, 1, 2}
  KeyData = {"a", "b", "c", "d"}
  KeyLists <- MCKeyLists
  Amounts = {1000, 1500}
  Times = {10, 12}
  RATIO = 1000
  MIN_WITHDRAWAL = 1000
  MIN_FEE = 100
  MAX_KEYS = 4
  BLOCK_TIME_WINDOW = 1
  MaxCoreHeight = 1
  MaxDelivered = 4
INVARIANTS IdentitiesInv CreditsBacked
PROPERTIES KeysOnlyGrow
