SPECIFICATION Spec
CONSTANTS
    Dialect = "postgres"
    Statements = {}
    Capacity = 0
    Calls = {"Begin", "Commit", "Rollback", "Execute", "Ping"}
    MayFail = {"COMMIT", "WRITE"}
    MayCancel = {"Begin", "Commit", "Rollback", "Execute", "Ping"}
    Discards = {"Begin", "Commit"}
    MaxTx = 3
    MaxDepth = 2
    MaxFrames = 3
    MaxPending = 2
    MaxPrepares = 0
INVARIANTS
    TransactionsExact
PROPERTIES
    OpenKeepsWrites
CHECK_DEADLOCK FALSE
