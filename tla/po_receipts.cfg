SPECIFICATION FairSpec
CONSTANTS
    l1 = l1
    l2 = l2
    NoRule = NoRule
    Po = {x1, x2}
    PoLine = {l1, l2}
    OrderedQty = 2
    Receipt <- Receipts
    Rule = {r1}
    Staff = {s1}
    Handler = {h1, h2}
    MaxCrash = 1
INVARIANT StockMatchesReceipts
CHECK_DEADLOCK FALSE
PROPERTY ReceiptsReachStock
