SPECIFICATION FairSpec
CONSTANTS
    a = a
    b = b
    Shipment = {s1}
    Fulfillment <- OneByOne
    Line = {a, b}
    Ordered <- OneEach
    Unlinked = Unlinked
    Proc = {p1, p2}
    MaxCrash = 1
INVARIANT LinesCountFulfillments
CHECK_DEADLOCK FALSE
PROPERTY OverdueIsNoticed
PROPERTY RollupsComplete
