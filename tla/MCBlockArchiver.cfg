SPECIFICATION Spec
CONSTANTS
    g = g b1 = b1 b2 = b2 side = side p1 = p1 p2 = p2 p3 = p3
    Caller = {p1, p2}
    Block = {g, b1, b2, side}
    Number <- MCNumber
    Archived = {b1, b2}
    From <- MCFrom
    To <- MCTo
    Genesis = g
    Missing = Missing
    Ranges = {r1, r2, r3, r4}
    NoRange = NoRange
    CacheSize = 1
    MaxFailures = 1
INVARIANTS RegisteredRangesOpen NoRangeLeaks
PROPERTY ImplementsBlockService
