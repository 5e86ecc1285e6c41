SPECIFICATION MCSpec
CONSTANTS
    p1 = p1
    p2 = p2
    r1 = r1
    NoOne = NoOne
    Procs = {p1, p2, r1}
    Reconcilers = {r1}
    Lacks <- MCLacks
    Databases <- Found
    MaxCrashes = 1
    Users = {"u1", "u2", "u3"}
    Conns = {"c1", "c2", "c3"}
    MaxSize = 2
    Checks = {"c1", "c2"}
    Callers = {"s1"}
    Hosts = {"h1"}
    NoCaller = "nobody"
    Requests <- MCRequests
    Limits <- MCLimits
    Second = 3
    Window = 3
    MaxDelay = 1
    MaxTime = 3
    Payments = {1, 2, 3}
    Networks = {"n1", "n2"}
    NetworkOf <- MCNetworkOf
    Terms <- MCTerms
    MaxConcurrent = 2
    SignerActive = TRUE
    HasHook = TRUE
    None = 0
    Operators = {"o1", "o2"}
    Targets = {"global", "exact"}
    NoOperator = "nobody"
    MaxEvents = 3
    Txs = {"x1", "x2"}
    Tenants = {"t1", "t2"}
    Sellers = {"s1", "s2"}
    Keys = {"k1", "k2", "k3", "k4"}
    Config <- Clashing
    NoTx = "nobody"
    MaxAudit = 3
CHECK_DEADLOCK FALSE
INVARIANTS
    PoolSound
    OneAtATime
    ProviderTruthful
    WindowBound
    AuditChain
    SellersAudited
    OneRunner
    MigratedWhole
PROPERTIES
    DecisionsSound
    TenancyFixed
    NobodyWaitsForEver
    EveryoneServes
