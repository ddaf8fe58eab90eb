CONSTANTS
    c1 = c1
    c2 = c2
    k1 = k1
    Nil = Nil
    Callers = {c1, c2}
    Keys = {k1}
    Sizes = {1}
    TTL = 2
    Eols = {1, 3, Nil}
    MaxTime = 3
    MaxUpdates = 1
SPECIFICATION Spec
INVARIANTS
    ExpiredIsRefused
SYMMETRY Symmetry
