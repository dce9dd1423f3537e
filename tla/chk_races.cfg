SPECIFICATION Spec
CONSTANTS
    Line = {l1}
    Attempt = {s1, s2}
    Proc = {p1, p2}
    MaxCrash = 1
SYMMETRY Symmetry
INVARIANT TypeOK
INVARIANT OneRunningSaga
INVARIANT AwaitingIsBacked
INVARIANT FailedIsUndone
INVARIANT SoldOnlyIfPaid
INVARIANT PlacedNeverFails
CHECK_DEADLOCK FALSE
