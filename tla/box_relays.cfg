SPECIFICATION FairSpec
CONSTANTS
    Row <- FourRows
    Transaction <- ThreeTransactions
    CreatedAt <- BegunAt
    Aggregate <- TwoAggregates
    Poison = {1}
    BatchSize = 2
    Relay = {r1, r2}
    MaxFail = 1
    MaxCrash = 1
INVARIANT ProcessedWasPublished
INVARIANT OrderKept
PROPERTY ImplementsChannel
PROPERTY EventsDelivered
