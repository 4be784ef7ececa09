SPECIFICATION Spec
CONSTANTS
    Dialect = "postgres"
    Statements = {}
    Capacity = 0
    Calls = {"Begin", "Commit", "Rollback", "Execute"}
    MayFail = {}
    MayCancel = {"Begin", "Commit", "Rollback", "Execute"}
    Discards = {"Begin"}
    MaxTx = 3
    MaxDepth = 2
    MaxFrames = 3
    MaxPending = 2
    MaxPrepares = 0
INVARIANTS
    CommitDurable
CHECK_DEADLOCK FALSE
