SPECIFICATION FenceSpec
CONSTANTS
    Payments = {p1, p2}
    Requests = {r1}
    Workers = {w1, w2}
    Operators = {op1}
    OwnerOf <- SharedOwner
    NoOwner = NoOwner
    NoPayment = NoPayment
    StaleInProgress = 1
    StaleSubmitted = 1
    StaleUnknown = 1
    ManualAfter = 2
    LeaseTime = 2
    OperatorStale = 2
    OperatorLeases = {2}
    BatchLimit = 2
    AgeBound = 4
SYMMETRY Symmetry
INVARIANTS
    FenceProtectsClaim
