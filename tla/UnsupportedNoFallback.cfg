SPECIFICATION Spec
CONSTANTS
    Directs = {d1}
    Urls = {}
    Unserved = {d1}
    FailureThreshold = 2
    RecoverySeconds = 1
    RetryAttempts = 1
    Deposit = 1
INVARIANTS
    UnsupportedFallsBack
