SPECIFICATION FairSpec
CONSTANTS
    Mail = {m1}
    MaxAttempts = 3
    Proc = {p1, p2}
    MaxCrash = 1
INVARIANT PendingIsDriven
INVARIANT DeadWasTried
CHECK_DEADLOCK FALSE
PROPERTY CommandsSettle
