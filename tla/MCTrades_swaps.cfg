CONSTANTS
    u1 = u1
    u2 = u2
    u3 = u3
    c1 = c1
    c2 = c2
    None = None
    Users = {u1, u2}
    Cards = {c1, c2}
    TradeIds = {t1, t2, t3}
    Terms <- PurchaseTerms
    Holdings <- MCHoldings
    Coins <- MCCoins
    PackCost = 1
    MaxCounterChain = 2
    MaxRequests = 2
    MaxPacks = 1
    Suspendable = {}
SPECIFICATION Spec
SYMMETRY Symmetric
INVARIANTS TypeOK LocksArePromises HoldingsAreExplained LedgerMatchesAudit AuditTellsTheStory NegotiationsAreSound
PROPERTIES ClosedTradesStayClosed
