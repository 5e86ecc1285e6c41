SPECIFICATION FairSpec
CONSTANTS
    Directs = {d1, d2}
    Urls = {u1}
    Unserved = {d2}
    FailureThreshold = 2
    RecoverySeconds = 1
    RetryAttempts = 1
    Deposit = 1
INVARIANTS
    BreakerAgrees
    FallbackIsSafe
    SuccessIsPaid
PROPERTIES
    FailureReopens
    Returns
