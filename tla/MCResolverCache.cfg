CONSTANTS
    c1 = c1
    c2 = c2
    k1 = k1
    k2 = k2
    k3 = k3
    Nil = Nil
    Callers = {c1, c2}
    Keys = {k1, k2, k3}
    Sizes = {0, 2}
    TTL = 1
    Eols = {2}
    MaxTime = 2
    MaxUpdates = 1
SPECIFICATION Spec
INVARIANTS
    TypeOK
    WithinSize
    HitBeforeEol
    StalenessBound
    UncachedIsCurrent
    CacheInv
SYMMETRY Symmetry
