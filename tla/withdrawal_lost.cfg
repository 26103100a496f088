SPECIFICATION Spec
CONSTANTS
    EPOCH_CHANGE_TIME_MS = 2
    WITHDRAWAL_TRANSACTIONS_QUERY_LIMIT = 2
    KeyStep = 0
    MaxHeight = 2
    MaxTime = 3
    MaxWithdrawals = 2
    MaxFailures = 0
    None = None
CHECK_DEADLOCK FALSE
INVARIANT NoWithdrawalLost
