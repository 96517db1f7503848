CONSTANTS
    u1 = u1
    u2 = u2
    u3 = u3
    c1 = c1
    c2 = c2
    None = None
    Users = {u1, u2, u3}
    Cards = {c1, c2}
    TradeIds = {t1, t2}
    Terms <- MCTerms
    Holdings <- MCHoldings
    Coins <- MCCoins
    PackCost = 1
    MaxCounterChain = 2
    MaxRequests = 1
    MaxPacks = 0
    Suspendable = {u1, u2}
SPECIFICATION FairSpec
PROPERTIES EveryTradeCloses
