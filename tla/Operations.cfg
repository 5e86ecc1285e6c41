SPECIFICATION MCSpec
CONSTANTS
    Requests = {"r1", "r2", "r3"}
    Operators = {"alice", "bob"}
    OpOf <- MCOpOf
    Workers = {"w"}
    LeaseSeconds = 1
    OperatorStale = 1
    WorkerLease = 1
    StaleAfter <- MCStaleAfter
    MaxClock = 2
    None = "none"
    Callers = {"r1"}
    Keys = {"k1", "k2"}
    Relations = {"manual_reviewer", "security_admin"}
    Permitting <- MCPermitting
    Ttl = 2
    Records = {1, 2, 3}
    FirstStatus <- MCFirstStatus
    Limit = 2
    LeaseTicks = 3
    MaxRun = 1
    StaleTicks <- MCStaleTicks
    ManualAfter = 2
    ErrorTicks = 2
    MaxRuns = 0
    MaxFaults = 1
CHECK_DEADLOCK FALSE
INVARIANTS
    AdmittedHeld
    OperatorAudited
    BatchBalanced
PROPERTIES
    KeysFollowIssuer
    LeaseRespected
    ActionsEnd
    LoopProgress
