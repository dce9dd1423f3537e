SPECIFICATION Spec
CONSTANTS
    Line = {l1}
    Attempt = {s1}
    Proc = {p1, p2}
    MaxCrash = 0
PROPERTY TerminalIsFinal
CHECK_DEADLOCK FALSE
