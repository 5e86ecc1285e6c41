SPECIFICATION MCSpec
CONSTANTS
    p1 = p1
    p2 = p2
    s1 = s1
    r1 = r1
    r2 = r2
    r3 = r3
    x1 = x1
    x2 = x2
    f1 = f1
    f2 = f2
    Processes = {x1, x2}
    Requests = {r1, r2, r3}
    Payments = {p1, p2}
    Profiles = {f1, f2}
    Sellers = {s1}
    SellerOf <- OneSeller
    Amount <- Amounts
    Limit = 1
INVARIANTS
    RecordsSound
    ViewsTrue
PROPERTIES
    StoresKeepContract
