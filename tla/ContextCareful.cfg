\* Three contexts made, moved, debugged and destroyed within the discipline.
SPECIFICATION Spec
CONSTANTS
    A = A
    B = B
    C = C
    j1 = j1
    j2 = j2
    j3 = j3
    s1 = s1
    s2 = s2
    s3 = s3
    None = None
    Objects = {A, B, C}
    JsContexts = {j1, j2, j3}
    Servers = {s1, s2, s3}
    Careful = TRUE
INVARIANTS
    TypeOK
    HandlerFindsServer
    ServerOutlivesRun
    OneOwner
CHECK_DEADLOCK FALSE
