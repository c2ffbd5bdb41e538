\* A weak map, an object with C++ data and a variable reference.
SPECIFICATION Spec
CONSTANTS
    m1 = m1
    o1 = o1
    v1 = v1
    x = x
    y = y
    z = z
    Nodes = {m1, o1, v1}
    Inner = {v1}
    Maps = {m1}
    Hides = {o1}
    Slots = {x, y, z}
    Value = y
    Hidden = z
    Stack = Stack
    None = None
INVARIANT NoDangling OnlyGarbage CountsExact AssertsHold
PROPERTY CollectsAll
