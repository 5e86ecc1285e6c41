CONSTANTS
    t1 = t1
    s1 = s1
    k1 = k1
    Nobody = Nobody
    Txs = {x1, x2}
    Tenants = {t1}
    Sellers = {s1}
    Keys = {k1}
    Config <- OneConfig
    MaxAudit = 1
SYMMETRY TxsSymmetry
SPECIFICATION Spec
INVARIANTS
    RevokedFailsClosed
