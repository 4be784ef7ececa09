SPECIFICATION Spec
CONSTANTS
    Dialect = "sqlite"
    ChannelSize = 1
    MaxTx = 3
    MaxDepth = 3
    MaxFrames = 3
    Calls = {"Begin", "BeginWith", "Commit", "Rollback", "Execute", "Ping", "Lock"}
    MayFail = {"BEGIN", "SAVEPOINT", "COMMIT", "RELEASE"}
    MayCancel = {"Begin", "BeginWith", "Commit", "Rollback", "Execute", "Ping", "Lock"}
    NotABegin = FALSE
INVARIANTS
    TransactionsExact
PROPERTIES
    OpenKeepsWrites
CHECK_DEADLOCK FALSE
