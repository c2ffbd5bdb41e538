\* One client sending three commands to a script of three lines, one inside another; the port may be taken, and Shutdown() may come at any point.
SPECIFICATION Spec
CONSTANTS
    c1 = c1
    c2 = c2
    l1 = l1
    l2 = l2
    v1 = v1
    v2 = v2
    NoConn = NoConn
    NoVar = NoVar
    Conns = {c1}
    Lines = {l1, l2}
    Vars = {v1}
    Computed = {v1}
    MaxDepth = 2
    MaxSends = 3
    Others = {}
    Faults = {"bind"}
    MaxRuns = 3
PROPERTY ImplementsSession HeldGoesOn
CHECK_DEADLOCK FALSE
