\* Values moved, shared and called, with two calls inside one another.
SPECIFICATION Spec
CONSTANTS
    v1 = v1
    v2 = v2
    v3 = v3
    v4 = v4
    x1 = x1
    x2 = x2
    x3 = x3
    p1 = p1
    p2 = p2
    None = None
    Slots = {x1, x2}
    Names = {p1, p2}
    Vals = {v1, v2, v3}
    MaxCalls = 2
INVARIANTS
    RefsCounted
    MethodsLive
SYMMETRY Symmetry
CHECK_DEADLOCK FALSE
