SPECIFICATION FairSpec
CONSTANTS
    Order = {o1, o2}
    Discounted = {o1}
    Proc = {p1, p2}
    Reward = 2
    MaxCrash = 1
    MaxRows = 2
INVARIANT CreditedOnce
INVARIANT UsageNotOvercounted
CHECK_DEADLOCK FALSE
PROPERTY PlacedTakesEffect
