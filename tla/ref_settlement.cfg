SPECIFICATION FairSpec
CONSTANTS
    m1 = m1
    NoRma = NoRma
    Refund <- ThreeRefunds
    Rma = {m1}
    Total = 2
    Staff = {s1}
    Handler = {h1, h2}
    MaxCrash = 1
INVARIANT ShownIsSettled
INVARIANT ResolvedIsRefunded
CHECK_DEADLOCK FALSE
PROPERTY ProcessingAnswered
