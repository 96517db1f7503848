CONSTANTS
    Transactions = {x1, x2}
    Trades <- MCTrades
    Work <- Suspensions
    Admins = {}
SPECIFICATION Spec
CHECK_DEADLOCK FALSE
INVARIANTS NoDeadlock
