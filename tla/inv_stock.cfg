SPECIFICATION FairSpec
CONSTANTS
    Cell = {1, 2}
    Hold = {h1, h2}
    Key = {k1}
    NoKey = NoKey
    Caller = {p1, p2}
    Receipt <- OneReceipt
    Stocked = {2}
    MaxQty = 1
    Count = {0}
    ReorderLevel = 0
    AlertLevel = 1
    EditsOverlap = FALSE
INVARIANT TypeOK
INVARIANT ReservedMatchesHolds
INVARIANT OneHoldPerKey
INVARIANT StockConserved
INVARIANT NoOrphanRows
PROPERTY CrossingsAnnounced
PROPERTY ImplementsLifecycle
PROPERTY HoldsNeverLeak
