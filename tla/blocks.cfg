SPECIFICATION FairSpec
CONSTANTS
    EPOCH_CHANGE_TIME_MS = 2
    WITHDRAWAL_TRANSACTIONS_QUERY_LIMIT = 2
    KeyStep = 1
    MaxHeight = 4
    MaxTime = 7
    MaxWithdrawals = 5
    MaxFailures = 2
    None = None
CHECK_DEADLOCK FALSE
INVARIANTS MemoryCoherent WithdrawalsOnce
PROPERTIES LedgerSpec WithdrawalsSigned
