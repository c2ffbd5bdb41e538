\* Two clients that come, send anything, stop and leave; bind() and accept() may fail.
SPECIFICATION Spec
CONSTANTS
    c1 = c1
    c2 = c2
    l1 = l1
    l2 = l2
    v1 = v1
    v2 = v2
    NoConn = NoConn
    NoVar = NoVar
    Conns = {c1, c2}
    Lines = {l1}
    Vars = {v1}
    Computed = {v1}
    MaxDepth = 2
    MaxSends = 2
    Others = {"stop", "unknown"}
    Faults = {"bind", "accept", "leave"}
    MaxRuns = 2
INVARIANT TypeOK
INVARIANT CommandsWake
INVARIANT ShutdownWakes
PROPERTY DiesBetweenClients ShutdownReleases
CHECK_DEADLOCK FALSE
