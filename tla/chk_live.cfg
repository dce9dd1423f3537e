SPECIFICATION FairSpec
CONSTANTS
    Line = {l1}
    Attempt = {s1}
    Proc = {p1, p2}
    MaxCrash = 1
PROPERTY AwaitingSettles
CHECK_DEADLOCK FALSE
PROPERTY CanceledFreesStock
