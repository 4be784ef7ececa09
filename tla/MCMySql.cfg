SPECIFICATION Spec
CONSTANTS
    Dialect = "mysql"
    Statements = {q1, q2}
    Capacity = 1
    DeprecateEof = TRUE
    Calls = {"Begin", "Commit", "Rollback", "Fetch", "Run", "RunOnce", "Describe", "Ping", "ClearCache"}
    MayFail = {"SELECT", "PREPARE"}
    MayCancel = {"Begin", "Commit", "Run"}
    Streamed = {"Fetch", "Run"}
    Careful = {"begin", "prepare", "ping", "yield"}
    MaxTx = 2
    MaxDepth = 2
    MaxWaiting = 1
    MaxPrepares = 2
SYMMETRY StatementSymmetry
INVARIANTS
    ProtocolInSync
    AnswersArrive
    TransactionsExact
PROPERTIES
    OpenKeepsWrites
CHECK_DEADLOCK FALSE
