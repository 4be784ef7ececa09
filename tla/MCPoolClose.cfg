SPECIFICATION Spec
CONSTANTS
    Tasks = {t1, t2}
    Reaper = reaper
    Closers = {c1}
    HasReaper = TRUE
    MaxConnections = 2
    MinConnections = 0
    MaxLeaks = 1
    WrapCount = 3
SYMMETRY TaskSymmetry
INVARIANT NoSpuriousRetry
PROPERTY ImplementsBudget
