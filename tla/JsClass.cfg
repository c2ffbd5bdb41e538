\* Three script objects and four C++ objects, made, lent and destroyed.
SPECIFICATION ClassSpec
CONSTANTS
    o1 = o1
    o2 = o2
    o3 = o3
    h1 = h1
    h2 = h2
    h3 = h3
    h4 = h4
    Null = Null
    Objs = {o1, o2, o3}
    Handles = {h1, h2, h3, h4}
    Careful = TRUE
INVARIANTS
    DestroyedOnce
    HandlesLive
CHECK_DEADLOCK FALSE
