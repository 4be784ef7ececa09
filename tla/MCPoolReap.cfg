SPECIFICATION Spec
CONSTANTS
    Tasks = {t1, t2}
    Reaper = reaper
    Closers = {}
    HasReaper = TRUE
    MaxConnections = 2
    MinConnections = 2
    MaxLeaks = 1
    WrapCount = 3
SYMMETRY TaskSymmetry
INVARIANTS
    PoolAccounting
    PoolBounds
