SPECIFICATION Spec
CONSTANTS
    a = a
    b = b
    Contracts = {c1}
    DocTypes = {a, b}
    IndexedTypes = {a}
    Bodies <- MCHistoryBodies
    MaxTransactions = 3
    NoContract = NoContract
    NoEntry = NoEntry
CHECK_DEADLOCK FALSE
INVARIANTS CacheInv QueriesReadCommitted BlockReadsCurrent
PROPERTIES DocumentsSurvive
