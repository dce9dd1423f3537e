SPECIFICATION Spec
CONSTANTS
    m1 = m1
    NoRma = NoRma
    Refund <- ThreeRefunds
    Rma = {m1}
    Total = 2
    Staff = {s1, s2}
    Handler = {}
    MaxCrash = 0
INVARIANT RefundsWithinTotal
CHECK_DEADLOCK FALSE
