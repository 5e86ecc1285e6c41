SPECIFICATION Spec
CONSTANTS
    Payments = {p1}
    Requests = {r1}
    Workers = {w1}
    Operators = {}
    OwnerOf <- SharedOwner
    NoOwner = NoOwner
    NoPayment = NoPayment
    StaleInProgress = 1
    StaleSubmitted = 1
    StaleUnknown = 1
    ManualAfter = 2
    LeaseTime = 2
    OperatorStale = 2
    OperatorLeases = {2}
    BatchLimit = 1
    AgeBound = 4
PROPERTIES
    LateTransactionPersisted
