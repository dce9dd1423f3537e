SPECIFICATION FairSpec
CONSTANTS
    Event <- TwoAttempts
    Refund <- TwoHalves
    Total = 2
    Proc = {p1, p2}
    MaxCrash = 1
INVARIANT ProcessedWasApplied
INVARIANT RefundsAreReal
CHECK_DEADLOCK FALSE
PROPERTY ImplementsLifecycle
PROPERTY WebhooksProcessed
PROPERTY RefundsSettle
