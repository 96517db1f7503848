SPECIFICATION Spec
CONSTANTS
    u1 = u1
    u2 = u2
    t1 = t1
    o1 = o1
    o2 = o2
    r1 = r1
    r2 = r2
    r3 = r3
    g1 = g1
    g2 = g2
    Requests = {r1, r2, r3}
    Ask <- FundsAsk
    Users = {u1}
    Templates = {t1}
    OpenIds = {o1, o2}
    Packs = {"p"}
    Costs = {1, 2}
    Grants = {g1, g2}
    GrantAmount <- MCGrantAmounts
    MaxCurrency = 1
    None = None
SYMMETRY Twins
INVARIANTS
    TypeOK
    BalanceIsLedgerSum
    ChargedOncePerOpening
PROPERTIES
    ImplementsOpenOnce
    NoFundsRefusalOncePaid
    LockReleasedByItsHolder
CHECK_DEADLOCK FALSE
