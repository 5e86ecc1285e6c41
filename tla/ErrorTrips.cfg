SPECIFICATION FairSpec
CONSTANTS
    Directs = {d1}
    Urls = {}
    Unserved = {}
    FailureThreshold = 2
    RecoverySeconds = 1
    RetryAttempts = 1
    Deposit = 1
PROPERTIES
    ErrorsDoNotTrip
